---- MODULE Spec2Model ----
(***************************************************************************)
(* pywebguard: the rate limiter (limiters/rate_limit.py), the route        *)
(* matcher inside it, and the request pipelines of the Flask and FastAPI   *)
(* adapters (frameworks/_flask.py, frameworks/_fastapi.py), over a         *)
(* key-value store with per-key TTL.                                       *)
(*                                                                         *)
(* Strings are sequences of one-character strings, so that prefix, suffix  *)
(* and substring tests and key formatting are computed as the code does.   *)
(* The minute bucket inside a window key is kept as one integer element.   *)
(***************************************************************************)
EXTENDS Integers, Sequences, FiniteSets, TLC

VARIABLES now, store, config, route_configs, guard_config, calls, hist, last, rt

vars == <<now, store, config, route_configs, guard_config, calls, hist, last, rt>>

-----------------------------------------------------------------------------
(* Bounds of the model *)

MaxRpm == 1
MaxBurst == 2
MaxRequests == 4
MaxTicks == 2
MaxPatLen == 5
MaxPathLen == 6
MaxBindings == 2

-----------------------------------------------------------------------------
(* String helpers: Python str operations on character sequences *)

StartsWith(s, p) == Len(p) <= Len(s) /\ SubSeq(s, 1, Len(p)) = p

EndsWith(s, p) == Len(p) <= Len(s) /\ SubSeq(s, Len(s) - Len(p) + 1, Len(s)) = p

Contains(s, sub) == \E i \in 0..(Len(s) - Len(sub)) : SubSeq(s, i + 1, i + Len(sub)) = sub

DropLast(s, n) == SubSeq(s, 1, Len(s) - n)

DropFirst(s, n) == SubSeq(s, n + 1, Len(s))

LowerChar(c) ==
    CASE c = "R" -> "r"
      [] c = "I" -> "i"
      [] c = "P" -> "p"
      [] c = "U" -> "u"
      [] c = "S" -> "s"
      [] OTHER -> c

Lower(s) == [i \in 1..Len(s) |-> LowerChar(s[i])]

Max(a, b) == IF a >= b THEN a ELSE b

StringsUpTo(alphabet, n) == UNION {[1..k -> alphabet] : k \in 0..n}

-----------------------------------------------------------------------------
(* String literals of the source *)

None == <<"None">>

S_ratelimit == <<"r", "a", "t", "e", "l", "i", "m", "i", "t", ":">>

S_burst == <<"b", "u", "r", "s", "t", ":">>

S_violations == <<"v", "i", "o", "l", "a", "t", "i", "o", "n", "s", ":">>

S_banned_ip == <<"b", "a", "n", "n", "e", "d", "_", "i", "p", ":">>

S_exceeded == <<"R", "a", "t", "e", " ", "l", "i", "m", "i", "t", " ", "e", "x", "c", "e", "e", "d", "e", "d", " ", "f", "o", "r", " ">>

S_global == <<"g", "l", "o", "b", "a", "l">>

S_rate_limit == <<"r", "a", "t", "e", " ", "l", "i", "m", "i", "t">>

S_ip_is_banned == <<"I", "P", " ", "i", "s", " ", "b", "a", "n", "n", "e", "d", ":", " ">>

S_ip_address_is_banned == <<"I", "P", " ", "a", "d", "d", "r", "e", "s", "s", " ", "i", "s", " ", "b", "a", "n", "n", "e", "d">>

S_unknown_reason == <<"U", "n", "k", "n", "o", "w", "n", " ", "r", "e", "a", "s", "o", "n">>

S_blocked_ua == <<"b", "l", "o", "c", "k", "e", "d", " ", "u", "a">>

S_suspicious == <<"s", "u", "s", "p", "i", "c", "i", "o", "u", "s">>

-----------------------------------------------------------------------------
(* Route matching: RateLimiter._match_route_pattern, get_config_for_route *)

\* faulty variant: the remainder is not examined
MatchSingleStarAnyDepth(pattern, path) == StartsWith(path, DropLast(pattern, 2))

MatchSingleStar(pattern, path) ==
    LET prefix == DropLast(pattern, 2)
        remaining == DropFirst(path, Len(prefix))
    IN  IF ~StartsWith(path, prefix)
        THEN FALSE
        ELSE remaining = <<>>
             \/ (StartsWith(remaining, <<"/">>) /\ ~Contains(DropFirst(remaining, 1), <<"/">>))

\* faulty variant: the prefix must end at a segment boundary
MatchDoubleStarBoundary(pattern, path) ==
    LET prefix == DropLast(pattern, 3)
    IN  /\ StartsWith(path, prefix)
        /\ (Len(path) = Len(prefix) \/ path[Len(prefix) + 1] = "/")

MatchDoubleStar(pattern, path) == StartsWith(path, DropLast(pattern, 3))

MatchRoutePattern(pattern, path) ==
    IF pattern = <<"*">> THEN TRUE
    ELSE IF EndsWith(pattern, <<"/", "*", "*">>) THEN MatchDoubleStar(pattern, path)
    ELSE IF EndsWith(pattern, <<"/", "*">>) THEN MatchSingleStar(pattern, path)
    ELSE pattern = path

\* route_configs is an insertion-ordered dict: a sequence of <<pattern, rule>>
\* pairs with pairwise distinct patterns.
Patterns(rc) == {rc[i][1] : i \in 1..Len(rc)}

IndexOf(rc, pattern) == CHOOSE i \in 1..Len(rc) : rc[i][1] = pattern

FirstMatch(rc, path) ==
    CHOOSE i \in 1..Len(rc) :
        /\ MatchRoutePattern(rc[i][1], path)
        /\ \A j \in 1..(i - 1) : ~MatchRoutePattern(rc[j][1], path)

\* faulty variant: no exact lookup before the scan in registration order
GetConfigForRouteScanOnly(rc, dflt, path) ==
    IF \E i \in 1..Len(rc) : MatchRoutePattern(rc[i][1], path)
    THEN rc[FirstMatch(rc, path)][2]
    ELSE dflt

GetConfigForRoute(rc, dflt, path) ==
    IF path \in Patterns(rc) THEN rc[IndexOf(rc, path)][2]
    ELSE IF \E i \in 1..Len(rc) : MatchRoutePattern(rc[i][1], path)
         THEN rc[FirstMatch(rc, path)][2]
         ELSE dflt

\* faulty variant: the binding is not recorded
AddRouteConfigIgnored(rc, pattern, rule) == rc

AddRouteConfig(rc, pattern, rule) ==
    IF pattern \in Patterns(rc)
    THEN [rc EXCEPT ![IndexOf(rc, pattern)] = <<pattern, rule>>]
    ELSE Append(rc, <<pattern, rule>>)

-----------------------------------------------------------------------------
(* Key-value store with per-key TTL: key -> [val, exp]; exp = NoExpiry     *)
(* when the key was stored without a ttl.                                  *)

NoExpiry == -1

Live(st, t, k) == k \in DOMAIN st /\ (st[k].exp = NoExpiry \/ t < st[k].exp)

StoreExists(st, t, k) == Live(st, t, k)

\* storage.get(key) or 0
StoreGetOr0(st, t, k) == IF Live(st, t, k) THEN st[k].val ELSE 0

Put(st, k, e) == [x \in DOMAIN st \cup {k} |-> IF x = k THEN e ELSE st[x]]

\* faulty variant: the ttl is not recorded
StoreSetForever(st, t, k, v, ttl) == Put(st, k, [val |-> v, exp |-> NoExpiry])

StoreSet(st, t, k, v, ttl) == Put(st, k, [val |-> v, exp |-> IF ttl = NoExpiry THEN NoExpiry ELSE t + ttl])

StoreDelete(st, k) == [x \in DOMAIN st \ {k} |-> st[x]]

\* faulty variant: the amount replaces the stored value
StoreIncrementOverwrite(st, t, k, amount, ttl) == StoreSet(st, t, k, amount, ttl)

StoreIncrement(st, t, k, amount, ttl) ==
    IF Live(st, t, k)
    THEN Put(st, k, [val |-> st[k].val + amount, exp |-> st[k].exp])
    ELSE StoreSet(st, t, k, amount, ttl)

\* storage.get(key): the value, or absent (None)
StoreGet(st, t, k) == IF Live(st, t, k) THEN [value |-> st[k].val] ELSE [absent |-> TRUE]

\* increment of a key that holds a value that is not a number raises ValueError
IncrementRaises(st, t, k, numeric) == Live(st, t, k) /\ ~numeric

\* expired entries are dropped by the store
Purge(st, t) == [x \in {k \in DOMAIN st : Live(st, t, k)} |-> st[x]]

-----------------------------------------------------------------------------
(* RateLimiter.check_limit *)

WindowTTL == 60

BurstTTL == 3600

ViolationTTL == 86400

SecondsPerMinute == 60

\* Python truthiness of an Optional[str]: None and "" are falsy
Truthy(path) == path # None /\ path # <<>>

\* faulty variant: the path is left out of the keys
PathSuffixDropped(path) == <<>>

PathSuffix(path) == IF Truthy(path) THEN <<":">> \o path ELSE <<>>

CurrentMinute(t) == t \div SecondsPerMinute

\* faulty variant: one window counter for all minutes
WindowKeyUnbucketed(identifier, path, t) == S_ratelimit \o identifier \o PathSuffix(path)

\* faulty variant: burst credit is spent although the window is not full
WindowExceededAlways(count, cfg) == TRUE

WindowKey(identifier, path, t) == S_ratelimit \o identifier \o PathSuffix(path) \o <<":", CurrentMinute(t)>>

BurstKey(identifier, path) == S_ratelimit \o S_burst \o identifier \o PathSuffix(path)

\* faulty variant: one violation counter per identifier
ViolationKeyPerIdentifier(identifier, path) == S_ratelimit \o S_violations \o identifier

ViolationKey(identifier, path) == S_ratelimit \o S_violations \o identifier \o PathSuffix(path)

BanKey(identifier) == S_banned_ip \o identifier

\* faulty variant: the reason does not name the path
RateLimitReasonBare(path) == S_exceeded

RateLimitReason(path) == S_exceeded \o (IF Truthy(path) THEN path ELSE S_global)

\* faulty variant: the time is rounded up to a minute, not moved to the next one
ResetTimeCeiling(t) == ((t + SecondsPerMinute - 1) \div SecondsPerMinute) * SecondsPerMinute

ResetTime(t) == (CurrentMinute(t) + 1) * SecondsPerMinute

BanTTL(cfg) == cfg.auto_ban_duration_minutes * SecondsPerMinute

\* faulty variant: a call without a path is resolved against the bindings too
ResolveConfigByRoute(rc, dflt, path) == GetConfigForRoute(rc, dflt, path)

ResolveConfig(rc, dflt, path) == IF path # None THEN GetConfigForRoute(rc, dflt, path) ELSE dflt

WindowExceeded(count, cfg) == count >= cfg.requests_per_minute

\* faulty variant: one unit of burst credit too many
BurstExhaustedLate(burst_count, cfg) == burst_count > cfg.burst_size

BurstExhausted(burst_count, cfg) == burst_count >= cfg.burst_size

\* faulty variant: the enabled flag of the rule is ignored
RuleDisabledIgnored(cfg) == FALSE

RuleDisabled(cfg) == ~cfg.enabled

\* faulty variant: a threshold of 0 does not switch the auto-ban off
AutoBanAlways(cfg) == TRUE

AutoBanEnabled(cfg) == cfg.auto_ban_threshold > 0

\* faulty variant: the ban is written only when the threshold is first reached
BanDueExact(violations, cfg) == violations = cfg.auto_ban_threshold

BanDue(violations, cfg) == violations >= cfg.auto_ban_threshold

\* faulty variant: the difference is not clamped at 0
RemainingUnclamped(cfg, new_count) == cfg.requests_per_minute - new_count

Remaining(cfg, new_count) == Max(0, cfg.requests_per_minute - new_count)

OpGet(k) == [op |-> "get", key |-> k]

OpIncr(k) == [op |-> "increment", key |-> k]

OpSet(k) == [op |-> "set", key |-> k]

\* faulty variant: the denied request is counted in the window
DenyRequestCounted(st, t, cfg, identifier, path, ops) ==
    [result |-> [allowed |-> FALSE, remaining |-> 0, reset |-> ResetTime(t), reason |-> RateLimitReason(path)],
     store |-> StoreIncrement(st, t, WindowKey(identifier, path, t), 1, WindowTTL),
     ops |-> ops]

\* faulty variant: the denial is not counted as a violation
DenyRequestUncounted(st, t, cfg, identifier, path, ops) ==
    [result |-> [allowed |-> FALSE, remaining |-> 0, reset |-> ResetTime(t), reason |-> RateLimitReason(path)],
     store |-> st, ops |-> ops]

\* lines 142-170: burst exhausted, the request is denied
DenyRequest(st, t, cfg, identifier, path, ops) ==
    LET violation_key == ViolationKey(identifier, path)
        st1 == StoreIncrement(st, t, violation_key, 1, ViolationTTL)
        violations == st1[violation_key].val
        ban_key == BanKey(identifier)
        st2 == StoreSet(st1, t, ban_key, [reason |-> RateLimitReason(path), timestamp |-> t], BanTTL(cfg))
        result == [allowed |-> FALSE, remaining |-> 0, reset |-> ResetTime(t), reason |-> RateLimitReason(path)]
    IN  IF AutoBanEnabled(cfg)
        THEN IF BanDue(violations, cfg)
             THEN [result |-> result, store |-> st2, ops |-> ops \o <<OpIncr(violation_key), OpSet(ban_key)>>]
             ELSE [result |-> result, store |-> st1, ops |-> ops \o <<OpIncr(violation_key)>>]
        ELSE [result |-> result, store |-> st, ops |-> ops]

\* faulty variant: the admitted request is not counted in the window
AllowRequestUncounted(st, t, cfg, identifier, path, ops) ==
    [result |-> [allowed |-> TRUE, remaining |-> cfg.requests_per_minute, reset |-> ResetTime(t)],
     store |-> st,
     ops |-> ops]

\* lines 175-184: the window counter is incremented and the request allowed
AllowRequest(st, t, cfg, identifier, path, ops) ==
    LET window_key == WindowKey(identifier, path, t)
        st1 == StoreIncrement(st, t, window_key, 1, WindowTTL)
        new_count == st1[window_key].val
    IN  [result |-> [allowed |-> TRUE, remaining |-> Remaining(cfg, new_count), reset |-> ResetTime(t)],
         store |-> st1,
         ops |-> ops \o <<OpIncr(window_key)>>]

\* faulty variant: burst credit is granted without being consumed
UseBurstFree(st, t, identifier, path) == st

\* lines 172-173: one unit of burst credit is consumed
UseBurst(st, t, identifier, path) == StoreIncrement(st, t, BurstKey(identifier, path), 1, BurstTTL)

check_limit(st, t, rc, dflt, identifier, path) ==
    LET cfg == ResolveConfig(rc, dflt, path)
        window_key == WindowKey(identifier, path, t)
        count == StoreGetOr0(st, t, window_key)
        burst_key == BurstKey(identifier, path)
        burst_count == StoreGetOr0(st, t, burst_key)
    IN  IF RuleDisabled(cfg)
        THEN [result |-> [allowed |-> TRUE, remaining |-> -1, reset |-> -1], store |-> st, ops |-> <<>>]
        ELSE IF WindowExceeded(count, cfg)
             THEN IF BurstExhausted(burst_count, cfg)
                  THEN DenyRequest(st, t, cfg, identifier, path, <<OpGet(window_key), OpGet(burst_key)>>)
                  ELSE AllowRequest(UseBurst(st, t, identifier, path), t, cfg, identifier, path,
                                    <<OpGet(window_key), OpGet(burst_key), OpIncr(burst_key)>>)
             ELSE AllowRequest(st, t, cfg, identifier, path, <<OpGet(window_key)>>)

-----------------------------------------------------------------------------
(* AsyncRateLimiter.check_limit: every store call is awaited *)

\* faulty variant: the awaited burst increment is lost
AsyncUseBurstDropped(st, t, identifier, path) == st

\* line 347: await self.storage.increment(burst_key, 1, 3600)
AsyncUseBurst(st, t, identifier, path) ==
    StoreIncrement(st, t, S_ratelimit \o S_burst \o identifier \o PathSuffix(path), 1, BurstTTL)

async_check_limit(st, t, rc, dflt, identifier, path) ==
    LET cfg == IF path # None THEN GetConfigForRoute(rc, dflt, path) ELSE dflt
        path_suffix == IF Truthy(path) THEN <<":">> \o path ELSE <<>>
        window_key == S_ratelimit \o identifier \o path_suffix \o <<":", t \div SecondsPerMinute>>
        count == StoreGetOr0(st, t, window_key)
        over == count >= cfg.requests_per_minute
        burst_key == S_ratelimit \o S_burst \o identifier \o path_suffix
        burst_count == StoreGetOr0(st, t, burst_key)
        reset_time == (t \div SecondsPerMinute + 1) * SecondsPerMinute
        violation_key == S_ratelimit \o S_violations \o identifier \o path_suffix
        st_v == StoreIncrement(st, t, violation_key, 1, ViolationTTL)
        violations == st_v[violation_key].val
        ban_key == S_banned_ip \o identifier
        reason == S_exceeded \o (IF Truthy(path) THEN path ELSE S_global)
        st_b == StoreSet(st_v, t, ban_key, [reason |-> reason, timestamp |-> t],
                         cfg.auto_ban_duration_minutes * SecondsPerMinute)
        denied == [allowed |-> FALSE, remaining |-> 0, reset |-> reset_time, reason |-> reason]
        reads == IF over THEN <<OpGet(window_key), OpGet(burst_key)>> ELSE <<OpGet(window_key)>>
        st_u == IF over THEN AsyncUseBurst(st, t, identifier, path) ELSE st
        st_w == StoreIncrement(st_u, t, window_key, 1, WindowTTL)
        new_count == st_w[window_key].val
    IN  IF ~cfg.enabled
        THEN [result |-> [allowed |-> TRUE, remaining |-> -1, reset |-> -1], store |-> st, ops |-> <<>>]
        ELSE IF over /\ burst_count >= cfg.burst_size
        THEN IF cfg.auto_ban_threshold > 0
             THEN IF violations >= cfg.auto_ban_threshold
                  THEN [result |-> denied, store |-> st_b,
                        ops |-> reads \o <<OpIncr(violation_key), OpSet(ban_key)>>]
                  ELSE [result |-> denied, store |-> st_v, ops |-> reads \o <<OpIncr(violation_key)>>]
             ELSE [result |-> denied, store |-> st, ops |-> reads]
        ELSE [result |-> [allowed |-> TRUE, remaining |-> Max(0, cfg.requests_per_minute - new_count),
                          reset |-> reset_time],
              store |-> st_w,
              ops |-> reads \o (IF over THEN <<OpIncr(burst_key)>> ELSE <<>>) \o <<OpIncr(window_key)>>]

-----------------------------------------------------------------------------
(* Inputs: identifiers, request paths, rules *)

Identifiers == {<<"1">>}

P_root == <<"/">>

P_a == <<"/", "a">>

P_ab == <<"/", "a", "/", "b">>

PAT_a_any == <<"/", "a", "/", "*", "*">>

RequestPaths == {P_root, P_a, P_ab}

LimiterPaths == RequestPaths \cup {None}

\* the empty path: given, and falsy like an absent one
P_empty == <<>>

ScopePaths == {None, P_empty, P_root, P_a}

Rule(rpm, burst, threshold, minutes, enabled) ==
    [requests_per_minute |-> rpm, burst_size |-> burst, auto_ban_threshold |-> threshold,
     auto_ban_duration_minutes |-> minutes, enabled |-> enabled]

DefaultRules == {Rule(n, b, th, 1, TRUE) : n \in 0..MaxRpm, b \in 0..MaxBurst, th \in {0, 2}}

StrictRule == Rule(1, 0, 0, 1, TRUE)

DisabledRule == Rule(1, 0, 2, 1, FALSE)

\* "/a" is bound to a strict rule, everything below "/a/" is exempt
RouteSets == {<<<<PAT_a_any, DisabledRule>>, <<P_a, StrictRule>>>>}

EmptyStore == [k \in {} |-> [val |-> 0, exp |-> NoExpiry]]

ClientIps == {<<"1">>, <<"2">>}

\* per (identifier, path), within the current minute bucket: the number of
\* check_limit calls, whether burst credit was absent at the first of them,
\* whether the burst credit key expired inside the bucket, and whether the
\* bucket is a later one that began with all burst credit consumed
NoCalls ==
    [s \in ClientIps \X (LimiterPaths \cup ScopePaths) |->
        [n |-> 0, fresh |-> TRUE, renewed |-> FALSE, spent |-> FALSE]]

\* requests made, clock moves made, identifiers for which a ban was written
NoHistory == [req |-> 0, ticks |-> 0, banned |-> {}]

BansWritten(st0, st1) ==
    {ip \in ClientIps : /\ BanKey(ip) \in DOMAIN st1
                        /\ (BanKey(ip) \notin DOMAIN st0 \/ st0[BanKey(ip)] # st1[BanKey(ip)])}

NoRoute == [stage |-> "none"]

NoGuardConfig == [cors |-> FALSE, user_agent |-> FALSE, penetration |-> FALSE]

-----------------------------------------------------------------------------
(* Sequential use of the limiter *)

Init ==
    /\ now = SecondsPerMinute \div 2
    /\ store = EmptyStore
    /\ config \in DefaultRules
    /\ route_configs \in RouteSets
    /\ guard_config = NoGuardConfig
    /\ calls = NoCalls
    /\ hist = NoHistory
    /\ last = [op |-> "init"]
    /\ rt = NoRoute

CountCall(identifier, path) ==
    LET c == calls[<<identifier, path>>]
    IN  [n |-> c.n + 1,
         fresh |-> IF c.n = 0 THEN ~Live(store, now, BurstKey(identifier, path)) ELSE c.fresh,
         renewed |-> c.renewed,
         spent |-> c.spent]

CheckLimit(identifier, path) ==
    LET r == check_limit(store, now, route_configs, config, identifier, path)
        c == CountCall(identifier, path)
    IN  /\ hist.req < MaxRequests
        /\ store' = r.store
        /\ calls' = [calls EXCEPT ![<<identifier, path>>] = c]
        /\ hist' = [hist EXCEPT !.req = @ + 1, !.banned = @ \cup BansWritten(store, r.store)]
        /\ last' = [op |-> "check_limit", identifier |-> identifier, path |-> path, t |-> now,
                    cfg |-> ResolveConfig(route_configs, config, path),
                    result |-> r.result, ops |-> r.ops, k |-> c.n, fresh |-> c.fresh,
                    count |-> StoreGetOr0(store, now, WindowKey(identifier, path, now)),
                    burst |-> StoreGetOr0(store, now, BurstKey(identifier, path)),
                    violations |-> StoreGetOr0(store, now, ViolationKey(identifier, path))]
        /\ UNCHANGED <<now, config, route_configs, guard_config, rt>>

\* the clock moves to the start of the next minute, or to a moment at which
\* a stored key expires (or the start of that minute)
TickTargets ==
    LET exps == {store[k].exp : k \in {x \in DOMAIN store : store[x].exp # NoExpiry}}
    IN  {x \in {ResetTime(now)} \cup exps
                \cup {CurrentMinute(e) * SecondsPerMinute : e \in exps} : x > now}

\* the burst credit key of (identifier, path) expires after the start of the
\* minute bucket of t and not later than t
BurstExpiresInside(identifier, path, t) ==
    LET k == BurstKey(identifier, path)
    IN  /\ k \in DOMAIN store
        /\ store[k].exp # NoExpiry
        /\ store[k].exp <= t
        /\ store[k].exp > CurrentMinute(t) * SecondsPerMinute

\* at the start of the minute bucket of t the burst credit of (identifier,
\* path) is all consumed
BurstSpentAtStart(identifier, path, t) ==
    StoreGetOr0(store, CurrentMinute(t) * SecondsPerMinute, BurstKey(identifier, path))
        >= ResolveConfig(route_configs, config, path).burst_size

Tick(t) ==
    /\ hist.ticks < MaxTicks
    /\ now' = t
    /\ store' = Purge(store, t)
    /\ calls' = [s \in DOMAIN calls |->
                    IF CurrentMinute(t) # CurrentMinute(now)
                    THEN [n |-> 0, fresh |-> TRUE, renewed |-> BurstExpiresInside(s[1], s[2], t),
                          spent |-> BurstSpentAtStart(s[1], s[2], t)]
                    ELSE [calls[s] EXCEPT !.renewed = @ \/ BurstExpiresInside(s[1], s[2], t)]]
    /\ hist' = [hist EXCEPT !.ticks = @ + 1]
    /\ last' = [op |-> "tick", t |-> t]
    /\ UNCHANGED <<config, route_configs, guard_config, rt>>

Next ==
    \/ \E identifier \in Identifiers, path \in LimiterPaths : CheckLimit(identifier, path)
    \/ \E t \in TickTargets : Tick(t)

Spec == Init /\ [][Next]_vars

-----------------------------------------------------------------------------
(* Sequential use of the limiter with and without a path *)

NextScope ==
    \/ \E identifier \in Identifiers, path \in ScopePaths : CheckLimit(identifier, path)
    \/ \E t \in TickTargets : Tick(t)

SpecScope == Init /\ [][NextScope]_vars

-----------------------------------------------------------------------------
(* Sequential use of the limiter under rules that admit several requests *)

RoomyRules == {Rule(MaxRpm + 1, b, 0, 1, TRUE) : b \in 0..1}

InitRoomy ==
    /\ now = SecondsPerMinute \div 2
    /\ store = EmptyStore
    /\ config \in RoomyRules
    /\ route_configs \in RouteSets
    /\ guard_config = NoGuardConfig
    /\ calls = NoCalls
    /\ hist = NoHistory
    /\ last = [op |-> "init"]
    /\ rt = NoRoute

SpecRoomy == InitRoomy /\ [][Next]_vars

-----------------------------------------------------------------------------
(* Sequential use of the suspendable limiter *)

AsyncCheckLimit(identifier, path) ==
    LET r == async_check_limit(store, now, route_configs, config, identifier, path)
        c == CountCall(identifier, path)
    IN  /\ hist.req < MaxRequests
        /\ store' = r.store
        /\ calls' = [calls EXCEPT ![<<identifier, path>>] = c]
        /\ hist' = [hist EXCEPT !.req = @ + 1, !.banned = @ \cup BansWritten(store, r.store)]
        /\ last' = [op |-> "async_check_limit", identifier |-> identifier, path |-> path, t |-> now,
                    cfg |-> ResolveConfig(route_configs, config, path),
                    result |-> r.result, ops |-> r.ops, k |-> c.n, fresh |-> c.fresh,
                    count |-> StoreGetOr0(store, now, WindowKey(identifier, path, now)),
                    burst |-> StoreGetOr0(store, now, BurstKey(identifier, path)),
                    violations |-> StoreGetOr0(store, now, ViolationKey(identifier, path))]
        /\ UNCHANGED <<now, config, route_configs, guard_config, rt>>

NextAsync ==
    \/ \E identifier \in Identifiers, path \in LimiterPaths : AsyncCheckLimit(identifier, path)
    \/ \E t \in TickTargets : Tick(t)

SpecAsync == Init /\ [][NextAsync]_vars

-----------------------------------------------------------------------------
(* The store used on its own: set, get, increment and the passing of time *)

MaxStoreOps == 4

ShortTTL == 1

LongTTL == 60

StoreKeys == {<<"k">>, <<"c">>}

ValueKinds == {"str", "dict", "int"}

ValueOf(kind) ==
    CASE kind = "str" -> "test_value"
      [] kind = "dict" -> [key |-> "value"]
      [] kind = "int" -> 1

TTLs == {NoExpiry, ShortTTL, LongTTL}

Amounts == {1, 5}

\* per key: the kind of the value last written, the operation that wrote it,
\* when and with which ttl a set wrote it, and the sum of the amounts added
\* to it since it was absent or set
NeverWritten == [kind |-> "none", by |-> "none", at |-> 0, ttl |-> NoExpiry, sum |-> 0]

InitStore ==
    /\ now = SecondsPerMinute \div 2
    /\ store = EmptyStore
    /\ config = StrictRule
    /\ route_configs = <<>>
    /\ guard_config = NoGuardConfig
    /\ calls = NoCalls
    /\ hist = NoHistory
    /\ last = [op |-> "init"]
    /\ rt = [stage |-> "store", keys |-> [k \in StoreKeys |-> NeverWritten]]

StoreSetOp(k, kind, ttl) ==
    /\ hist.req < MaxStoreOps
    /\ store' = StoreSet(store, now, k, ValueOf(kind), ttl)
    /\ rt' = [rt EXCEPT !.keys[k] = [kind |-> kind, by |-> "set", at |-> now, ttl |-> ttl,
                                     sum |-> IF kind = "int" THEN ValueOf(kind) ELSE 0]]
    /\ hist' = [hist EXCEPT !.req = @ + 1]
    /\ last' = [op |-> "set", key |-> k, kind |-> kind, ttl |-> ttl, t |-> now,
                returned |-> StoreGet(store', now, k), exists |-> StoreExists(store', now, k)]
    /\ UNCHANGED <<now, config, route_configs, guard_config, calls>>

StoreGetOp(k) ==
    /\ hist.req < MaxStoreOps
    /\ hist' = [hist EXCEPT !.req = @ + 1]
    /\ last' = [op |-> "get", key |-> k, t |-> now,
                returned |-> StoreGet(store, now, k), exists |-> StoreExists(store, now, k)]
    /\ UNCHANGED <<now, store, config, route_configs, guard_config, calls, rt>>

StoreIncrementOp(k, amount) ==
    LET g == rt.keys[k]
        raises == IncrementRaises(store, now, k, g.kind = "int")
        st1 == StoreIncrement(store, now, k, amount, NoExpiry)
    IN  /\ hist.req < MaxStoreOps
        /\ store' = IF raises THEN store ELSE st1
        /\ rt' = IF raises THEN rt
                 ELSE IF Live(store, now, k)
                 THEN [rt EXCEPT !.keys[k].by = "increment", !.keys[k].sum = @ + amount]
                 ELSE [rt EXCEPT !.keys[k] = [kind |-> "int", by |-> "increment", at |-> now,
                                              ttl |-> NoExpiry, sum |-> amount]]
        /\ hist' = [hist EXCEPT !.req = @ + 1]
        /\ last' = [op |-> "increment", key |-> k, amount |-> amount, t |-> now, raised |-> raises,
                    was_live |-> Live(store, now, k), was_kind |-> g.kind,
                    old |-> IF Live(store, now, k) /\ g.kind = "int" THEN store[k].val ELSE 0,
                    returned |-> IF raises THEN 0 ELSE st1[k].val]
        /\ UNCHANGED <<now, config, route_configs, guard_config, calls>>

NextStore ==
    \/ \E k \in StoreKeys, kind \in ValueKinds, ttl \in TTLs : StoreSetOp(k, kind, ttl)
    \/ \E k \in StoreKeys : StoreGetOp(k)
    \/ \E k \in StoreKeys, amount \in Amounts : StoreIncrementOp(k, amount)
    \/ \E t \in TickTargets : Tick(t)

SpecStore == InitStore /\ [][NextStore]_vars

-----------------------------------------------------------------------------
(* The request pipelines of the adapters *)

HTTP_OK == 200

HTTP_FORBIDDEN == 403

HTTP_TOO_MANY_REQUESTS == 429

Methods == {"GET", "OPTIONS"}

PipelinePaths == {P_root, P_a}

\* a clean request, one with a blocked user agent, one with an attack signature
RequestKinds == {[ua_blocked |-> FALSE, suspicious |-> FALSE], [ua_blocked |-> TRUE, suspicious |-> FALSE],
                 [ua_blocked |-> FALSE, suspicious |-> TRUE]}

\* Guard.is_ip_banned: a ban record is stored and has not expired
IsIpBanned(st, t, ip) == StoreExists(st, t, BanKey(ip))

\* ban_info.get('reason', 'Unknown reason') of the stored ban record
BanInfoReason(st, ip) ==
    LET ban_info == st[BanKey(ip)].val
    IN  IF "reason" \in DOMAIN ban_info THEN ban_info.reason ELSE S_unknown_reason

\* Guard.unban_ip: the ban record is deleted
UnbanStore(st, ip) == StoreDelete(st, BanKey(ip))

\* UserAgentFilter.is_allowed and PenetrationDetector.check_request decide
\* on the request alone; the request carries their verdicts
UserAgentCheck(ua_blocked) == [allowed |-> ~ua_blocked, reason |-> S_blocked_ua]

PenetrationCheck(suspicious) == [allowed |-> ~suspicious, reason |-> S_suspicious]

\* Guard.check_rate_limit delegates to the limiter
GuardCheckRateLimit(st, t, rc, dflt, ip, path) == check_limit(st, t, rc, dflt, ip, path)

\* FlaskGuard._default_response_handler
FlaskStatus(reason) == IF Contains(Lower(reason), S_rate_limit) THEN HTTP_TOO_MANY_REQUESTS ELSE HTTP_FORBIDDEN

FlaskBlocked(stage, reason, st, checks) ==
    [stage |-> stage, passed |-> FALSE, status |-> FlaskStatus(reason), reason |-> reason, store |-> st,
     limited |-> FALSE, checks |-> checks]

Passed(stage, st, limited, checks) ==
    [stage |-> stage, passed |-> TRUE, status |-> HTTP_OK, reason |-> <<>>, store |-> st,
     limited |-> limited, checks |-> checks]

\* the CORS preflight shortcut of before_request
CorsPreflight(gc, method) == method = "OPTIONS" /\ gc.cors

\* the checks a request has gone through when the optional check is enabled
Then(checks, enabled, check) == IF enabled THEN Append(checks, check) ELSE checks

\* faulty variant: the user agent is examined before the ban record
FlaskBeforeRequestUaFirst(st, t, gc, rc, dflt, ip, method, path, ua_blocked, suspicious) ==
    LET rate_info == check_limit(st, t, rc, dflt, ip, path)
        ua == UserAgentCheck(ua_blocked)
        c_ua == Then(<<>>, gc.user_agent, "ua")
        c_ban == Append(c_ua, "ban")
        c_rate == Append(c_ban, "rate")
    IN  IF gc.user_agent /\ ~ua.allowed THEN FlaskBlocked("ua", ua.reason, st, c_ua)
        ELSE IF IsIpBanned(st, t, ip)
             THEN FlaskBlocked("ban", S_ip_is_banned \o BanInfoReason(st, ip), st, c_ban)
        ELSE IF ~rate_info.result.allowed
             THEN [FlaskBlocked("rate", rate_info.result.reason, rate_info.store, c_rate) EXCEPT !.limited = TRUE]
        ELSE Passed("allowed", rate_info.store, TRUE, c_rate)

\* faulty variant: the penetration detector runs before the rate limiter
FlaskBeforeRequestPenFirst(st, t, gc, rc, dflt, ip, method, path, ua_blocked, suspicious) ==
    LET rate_info == check_limit(st, t, rc, dflt, ip, path)
        ua == UserAgentCheck(ua_blocked)
        pen == PenetrationCheck(suspicious)
        c_ban == <<"ban">>
        c_ua == Then(c_ban, gc.user_agent, "ua")
        c_pen == Then(c_ua, gc.penetration, "penetration")
        c_rate == Append(c_pen, "rate")
    IN  IF CorsPreflight(gc, method) THEN Passed("cors", st, FALSE, <<>>)
        ELSE IF IsIpBanned(st, t, ip)
             THEN FlaskBlocked("ban", S_ip_is_banned \o BanInfoReason(st, ip), st, c_ban)
        ELSE IF gc.user_agent /\ ~ua.allowed THEN FlaskBlocked("ua", ua.reason, st, c_ua)
        ELSE IF gc.penetration /\ ~pen.allowed THEN FlaskBlocked("penetration", pen.reason, st, c_pen)
        ELSE IF ~rate_info.result.allowed
             THEN [FlaskBlocked("rate", rate_info.result.reason, rate_info.store, c_rate) EXCEPT !.limited = TRUE]
        ELSE Passed("allowed", rate_info.store, TRUE, c_rate)

\* FlaskGuard.init_app.before_request
FlaskBeforeRequest(st, t, gc, rc, dflt, ip, method, path, ua_blocked, suspicious) ==
    LET rate_info == check_limit(st, t, rc, dflt, ip, path)
        ua == UserAgentCheck(ua_blocked)
        pen == PenetrationCheck(suspicious)
        c_ban == <<"ban">>
        c_ua == Then(c_ban, gc.user_agent, "ua")
        c_rate == Append(c_ua, "rate")
        c_pen == Then(c_rate, gc.penetration, "penetration")
    IN  IF CorsPreflight(gc, method) THEN Passed("cors", st, FALSE, <<>>)
        ELSE IF IsIpBanned(st, t, ip)
             THEN FlaskBlocked("ban", S_ip_is_banned \o BanInfoReason(st, ip), st, c_ban)
        ELSE IF gc.user_agent /\ ~ua.allowed THEN FlaskBlocked("ua", ua.reason, st, c_ua)
        ELSE IF ~rate_info.result.allowed
             THEN [FlaskBlocked("rate", rate_info.result.reason, rate_info.store, c_rate) EXCEPT !.limited = TRUE]
        ELSE IF gc.penetration /\ ~pen.allowed
             THEN [FlaskBlocked("penetration", pen.reason, rate_info.store, c_pen) EXCEPT !.limited = TRUE]
        ELSE Passed("allowed", rate_info.store, TRUE, c_pen)

FastAPIBlocked(stage, detail, st, limited, checks) ==
    [stage |-> stage, passed |-> FALSE, status |-> HTTP_FORBIDDEN, reason |-> detail, store |-> st,
     limited |-> limited, checks |-> checks]

\* FastAPIGuard.dispatch
FastAPIDispatch(st, t, rc, dflt, ip, path) ==
    LET result == GuardCheckRateLimit(st, t, rc, dflt, ip, path)
    IN  IF IsIpBanned(st, t, ip) THEN FastAPIBlocked("ban", S_ip_address_is_banned, st, FALSE, <<"ban">>)
        ELSE IF dflt.enabled
             THEN IF ~result.result.allowed
                  THEN FastAPIBlocked("rate", result.result.reason, result.store, TRUE, <<"ban", "rate">>)
                  ELSE Passed("allowed", result.store, TRUE, <<"ban", "rate">>)
             ELSE Passed("allowed", st, FALSE, <<"ban">>)

PipelineRules == {Rule(1, 0, 2, 2, TRUE)}

\* the user agent filter and the penetration detector are switched together
GuardConfigs == {[cors |-> c, user_agent |-> f, penetration |-> f] : c \in BOOLEAN, f \in BOOLEAN}

InitPipeline ==
    /\ now = SecondsPerMinute \div 2
    /\ store = EmptyStore
    /\ config \in PipelineRules
    /\ route_configs = <<>>
    /\ guard_config \in GuardConfigs
    /\ calls = NoCalls
    /\ hist = NoHistory
    /\ last = [op |-> "init"]
    /\ rt = NoRoute

\* the event of a request: what the adapter answered, and the verdicts the
\* user agent filter and the limiter give on the request when it gets to them
PipelineEvent(adapter, ip, method, path, ua_blocked, r) ==
    LET past_ban == r.stage \notin {"cors", "ban"}
        past_ua == past_ban /\ r.stage # "ua"
    IN  [op |-> adapter, identifier |-> ip, method |-> method, path |-> path, t |-> now,
         banned |-> IsIpBanned(store, now, ip), stage |-> r.stage, passed |-> r.passed,
         status |-> r.status, reason |-> r.reason, checks |-> r.checks,
         ua_denies |-> past_ban /\ adapter = "flask" /\ guard_config.user_agent /\ ~UserAgentCheck(ua_blocked).allowed,
         rate_denies |-> past_ua /\ r.limited
                           /\ ~check_limit(store, now, route_configs, config, ip, path).result.allowed,
         violations |-> StoreGetOr0(r.store, now, ViolationKey(ip, path))]

FlaskRequest(ip, method, path, ua_blocked, suspicious) ==
    LET r == FlaskBeforeRequest(store, now, guard_config, route_configs, config,
                                ip, method, path, ua_blocked, suspicious)
    IN  /\ hist.req < MaxRequests
        /\ store' = r.store
        /\ calls' = IF r.limited THEN [calls EXCEPT ![<<ip, path>>] = CountCall(ip, path)] ELSE calls
        /\ hist' = [hist EXCEPT !.req = @ + 1, !.banned = @ \cup BansWritten(store, r.store)]
        /\ last' = PipelineEvent("flask", ip, method, path, ua_blocked, r)
        /\ UNCHANGED <<now, config, route_configs, guard_config, rt>>

FastAPIRequest(ip, path) ==
    LET r == FastAPIDispatch(store, now, route_configs, config, ip, path)
    IN  /\ hist.req < MaxRequests
        /\ store' = r.store
        /\ calls' = IF r.limited THEN [calls EXCEPT ![<<ip, path>>] = CountCall(ip, path)] ELSE calls
        /\ hist' = [hist EXCEPT !.req = @ + 1, !.banned = @ \cup BansWritten(store, r.store)]
        /\ last' = PipelineEvent("fastapi", ip, "GET", path, FALSE, r)
        /\ UNCHANGED <<now, config, route_configs, guard_config, rt>>

UnbanIp(ip) ==
    /\ IsIpBanned(store, now, ip)
    /\ store' = UnbanStore(store, ip)
    /\ last' = [op |-> "unban", identifier |-> ip, t |-> now]
    /\ hist' = hist
    /\ UNCHANGED <<now, config, route_configs, guard_config, calls, rt>>

NextPipeline ==
    \/ \E ip \in ClientIps, method \in Methods, path \in PipelinePaths, kind \in RequestKinds :
          FlaskRequest(ip, method, path, kind.ua_blocked, kind.suspicious)
    \/ \E ip \in ClientIps, path \in PipelinePaths : FastAPIRequest(ip, path)
    \/ \E ip \in ClientIps : UnbanIp(ip)
    \/ \E t \in TickTargets : Tick(t)

SpecPipeline == InitPipeline /\ [][NextPipeline]_vars

-----------------------------------------------------------------------------
(* Route matching and route resolution applied to drawn inputs *)

PatternChars == {"/", "a", "*"}

PathChars == {"/", "a"}

MatchPatterns == StringsUpTo(PatternChars, MaxPatLen)

MatchPaths == StringsUpTo(PathChars, MaxPathLen)

PAT_star == <<"*">>

PAT_a_one == <<"/", "a", "/", "*">>

P_aa == <<"/", "a", "/", "a">>

BindingPatterns == {PAT_a_any, PAT_a_one, PAT_star, P_aa, P_a}

\* the rule bound to a pattern is named after the pattern
RuleOf(pattern) == [rule |-> pattern]

DefaultRuleName == [rule |-> <<"default">>]

\* dicts of at most MaxBindings bindings, in every insertion order
BindingLists ==
    {[i \in 1..Len(ps) |-> <<ps[i], RuleOf(ps[i])>>] :
        ps \in {q \in StringsUpTo(BindingPatterns, MaxBindings) :
                   \A i, j \in 1..Len(q) : i # j => q[i] # q[j]}}

InitRoute ==
    /\ now = 0
    /\ store = EmptyStore
    /\ config = StrictRule
    /\ route_configs = <<>>
    /\ guard_config = NoGuardConfig
    /\ calls = NoCalls
    /\ hist = NoHistory
    /\ last = [op |-> "init"]
    /\ \/ \E pattern \in MatchPatterns, path \in MatchPaths :
             rt = [stage |-> "match", pattern |-> pattern, path |-> path]
       \/ \E bindings \in BindingLists, path \in MatchPaths :
             rt = [stage |-> "resolve", bindings |-> bindings, path |-> path]

MatchStep ==
    /\ rt.stage = "match"
    /\ rt' = [stage |-> "matched", pattern |-> rt.pattern, path |-> rt.path,
              matched |-> MatchRoutePattern(rt.pattern, rt.path)]
    /\ UNCHANGED <<now, store, config, route_configs, guard_config, calls, hist, last>>

ResolveStep ==
    /\ rt.stage = "resolve"
    /\ rt' = [stage |-> "resolved", bindings |-> rt.bindings, path |-> rt.path,
              rule |-> GetConfigForRoute(rt.bindings, DefaultRuleName, rt.path)]
    /\ UNCHANGED <<now, store, config, route_configs, guard_config, calls, hist, last>>

NextRoute == MatchStep \/ ResolveStep

SpecRoute == InitRoute /\ [][NextRoute]_vars

-----------------------------------------------------------------------------
(* Claims about route matching and route resolution (SpecRoute) *)

P_aaa == <<"/", "a", "/", "a", "/", "a">>

P_aa_flat == <<"/", "a", "a">>

IsWildcard(pattern) ==
    pattern = PAT_star \/ EndsWith(pattern, <<"/", "*", "*">>) \/ EndsWith(pattern, <<"/", "*">>)

\* the remainder is empty, or a "/" followed by no further "/"
AtMostOneSegment(r) == r = <<>> \/ (r[1] = "/" /\ \A i \in 2..Len(r) : r[i] # "/")

\* C5: get_config_for_route returns the rule bound to the pattern equal to the
\* path if there is one, else the rule of the first pattern in registration
\* order that matches, else the default rule; exact beats an earlier wildcard.
C5_RouteResolution ==
    rt.stage = "resolved" =>
        LET rc == rt.bindings
            exact == {i \in 1..Len(rc) : rc[i][1] = rt.path}
            wild == {i \in 1..Len(rc) : MatchRoutePattern(rc[i][1], rt.path)}
        IN  /\ exact # {} => \E i \in exact : rt.rule = rc[i][2]
            /\ (exact = {} /\ wild # {}) =>
                  \E i \in wild : rt.rule = rc[i][2] /\ \A j \in wild : i <= j
            /\ (exact = {} /\ wild = {}) => rt.rule = DefaultRuleName
            /\ rc = <<<<PAT_a_any, RuleOf(PAT_a_any)>>, <<P_aa, RuleOf(P_aa)>>>> =>
                  /\ rt.path = P_aa => rt.rule = RuleOf(P_aa)
                  /\ rt.path = P_aaa => rt.rule = RuleOf(PAT_a_any)

C5_Witness ==
    /\ rt.stage = "resolved"
    /\ rt.bindings = <<<<PAT_a_any, RuleOf(PAT_a_any)>>, <<P_aa, RuleOf(P_aa)>>>>
    /\ rt.path = P_aa
    /\ rt.rule = RuleOf(P_aa)

\* C7: a pattern ending in "/*" with prefix P matches a path iff the path
\* starts with P and the remainder after P is empty or one path segment;
\* "/a/*" matches "/a/a" and does not match "/a/a/a".
C7_SingleStar ==
    (rt.stage = "matched" /\ EndsWith(rt.pattern, <<"/", "*">>)) =>
        LET P == DropLast(rt.pattern, 2)
        IN  /\ rt.matched <=> (StartsWith(rt.path, P) /\ AtMostOneSegment(DropFirst(rt.path, Len(P))))
            /\ (rt.pattern = PAT_a_one /\ rt.path = P_aa) => rt.matched
            /\ (rt.pattern = PAT_a_one /\ rt.path = P_aaa) => ~rt.matched

C7_Witness ==
    /\ rt.stage = "matched"
    /\ rt.pattern = PAT_a_one
    /\ rt.path = P_aaa
    /\ ~rt.matched

\* C8: a pattern ending in "/**" with prefix P matches a path iff P is a string
\* prefix of the path, on no segment boundary ("/a/**" matches "/a/a",
\* "/a/a/a", "/a" and "/aa"); "*" matches every path; a pattern without a
\* wildcard suffix matches only the identical string.
C8_DoubleStarStarExact ==
    rt.stage = "matched" =>
        /\ rt.pattern = PAT_star => rt.matched
        /\ EndsWith(rt.pattern, <<"/", "*", "*">>) =>
              (rt.matched <=> StartsWith(rt.path, DropLast(rt.pattern, 3)))
        /\ ~IsWildcard(rt.pattern) => (rt.matched <=> rt.pattern = rt.path)
        /\ (rt.pattern = PAT_a_any /\ rt.path \in {P_aa, P_aaa, P_a, P_aa_flat}) => rt.matched

C8_Witness ==
    /\ rt.stage = "matched"
    /\ rt.pattern = PAT_a_any
    /\ rt.path = P_aa_flat
    /\ rt.matched

-----------------------------------------------------------------------------
(* Claims about the limiter in sequential use (Spec) *)

IsCheck == last.op = "check_limit"

Quota(cfg) == cfg.requests_per_minute + cfg.burst_size

\* the count stored for the window key of minute bucket m, 0 when none is stored
StoredWindowCount(identifier, path, m) ==
    LET k == WindowKey(identifier, path, m * SecondsPerMinute)
    IN  IF k \in DOMAIN store THEN store[k].val ELSE 0

Buckets == {CurrentMinute(now) - 1, CurrentMinute(now)}

\* C1 as stated: in every window, calls 1..N+B on one identifier and path are
\* allowed and call N+B+1 is denied.
C1_EveryWindow ==
    (IsCheck /\ last.cfg.enabled) =>
        /\ last.k <= Quota(last.cfg) => last.result.allowed
        /\ last.k = Quota(last.cfg) + 1 => ~last.result.allowed

\* C1 amended: in a window at whose first call no burst credit is stored for
\* the identifier and path, calls 1..N+B are allowed and call N+B+1 is denied.
C1_FreshWindow ==
    (IsCheck /\ last.cfg.enabled /\ last.fresh) =>
        /\ last.k <= Quota(last.cfg) => last.result.allowed
        /\ last.k = Quota(last.cfg) + 1 => ~last.result.allowed

\* call N+B+1 of a later window that started without burst credit is denied
C1_Witness ==
    /\ IsCheck
    /\ last.cfg.enabled
    /\ last.fresh
    /\ last.t >= SecondsPerMinute
    /\ last.cfg.burst_size >= 1
    /\ last.k = Quota(last.cfg) + 1
    /\ ~last.result.allowed

\* C4 as stated: before a ban record is written for the identifier, no stored
\* window count exceeds requests_per_minute + burst_size of the resolved rule.
C4_WindowCap ==
    \A identifier \in Identifiers, path \in LimiterPaths, m \in Buckets :
        identifier \notin hist.banned =>
            StoredWindowCount(identifier, path, m) <= Quota(ResolveConfig(route_configs, config, path))

\* C4 amended: before a ban record is written for the identifier, the stored
\* count of the current bucket never exceeds requests_per_minute + burst_size
\* unless the burst credit key expired inside the bucket, and then it never
\* exceeds requests_per_minute + 2 * burst_size.
C4_WindowCapUnlessRenewed ==
    \A identifier \in Identifiers, path \in LimiterPaths :
        identifier \notin hist.banned =>
            LET cfg == ResolveConfig(route_configs, config, path)
                c == StoredWindowCount(identifier, path, CurrentMinute(now))
            IN  /\ ~calls[<<identifier, path>>].renewed => c <= Quota(cfg)
                /\ c <= Quota(cfg) + cfg.burst_size

\* a window filled up to requests_per_minute + burst_size, burst included
C4_Witness ==
    \E identifier \in Identifiers, path \in LimiterPaths :
        LET cfg == ResolveConfig(route_configs, config, path)
        IN  /\ identifier \notin hist.banned
            /\ cfg.enabled
            /\ cfg.burst_size >= 1
            /\ ~calls[<<identifier, path>>].renewed
            /\ calls[<<identifier, path>>].n > Quota(cfg)
            /\ StoredWindowCount(identifier, path, CurrentMinute(now)) = Quota(cfg)

IsCheckStep == last'.op = "check_limit" /\ hist'.req = hist.req + 1

\* the verdict check_limit gives for (identifier, path) in a store at time t
VerdictFor(st, t, identifier, path) == check_limit(st, t, route_configs, config, identifier, path).result

\* C6: rate-limit state is scoped per path: a check_limit call on one path,
\* allowed or denied, leaves the verdict of every other path as it was.
C6_PathScoped ==
    [][IsCheckStep =>
          \A path \in LimiterPaths \ {last'.path} :
              VerdictFor(store', now', last'.identifier, path) = VerdictFor(store, now, last'.identifier, path)]_vars

\* after the second call on "/a" was denied by its strict rule, a call on "/"
\* is allowed by the default rule
C6_Witness ==
    /\ IsCheck
    /\ last.path = P_root
    /\ last.result.allowed
    /\ last.cfg # StrictRule
    /\ calls[<<last.identifier, P_a>>].n >= 2
    /\ StoredWindowCount(last.identifier, P_a, CurrentMinute(now)) = 1

\* C10: for a rule with enabled = false check_limit returns allowed = true,
\* remaining = -1, reset = -1, issues no store operation and leaves the store
\* unchanged, call after call.
C10_DisabledBypass ==
    [][(IsCheckStep /\ ~last'.cfg.enabled) =>
          /\ last'.result = [allowed |-> TRUE, remaining |-> -1, reset |-> -1]
          /\ last'.ops = <<>>
          /\ store' = store]_vars

\* a second call in the same window under a disabled rule
C10_Witness ==
    /\ IsCheck
    /\ ~last.cfg.enabled
    /\ last.k >= 2
    /\ last.ops = <<>>

-----------------------------------------------------------------------------
(* Claims about the request pipelines (SpecPipeline) *)

IsRequest == last.op \in {"flask", "fastapi"}

S_banned == <<"b", "a", "n", "n", "e", "d">>

\* C2: with auto_ban_threshold = T > 0, the T-th rate-limit denial of an
\* identifier on a path leaves it banned; while the ban record is live every
\* request of that identifier, on any path, is denied with a reason naming the
\* ban; an identifier without a live ban record is never answered with a ban.
C2_AutoBan ==
    IsRequest =>
        /\ (last.stage = "rate" /\ config.auto_ban_threshold > 0
                /\ last.violations >= config.auto_ban_threshold)
              => IsIpBanned(store, now, last.identifier)
        /\ last.banned => (~last.passed /\ Contains(Lower(last.reason), S_banned))
        /\ ~last.banned => last.stage # "ban"

\* C3: a request of an identifier whose ban record is present and unexpired
\* is denied, whatever its method, path and user agent and whatever checks
\* (CORS included) are enabled.
C3_BanAuthoritative == (IsRequest /\ last.banned) => ~last.passed

\* C9: a request denied by the rate limiter is answered, by either adapter,
\* with status 403 and a reason containing "rate limit" in any letter case,
\* and does not reach the handler.
C9_RateLimitedIs403 ==
    (IsRequest /\ last.stage = "rate") =>
        /\ last.status = HTTP_FORBIDDEN
        /\ Contains(Lower(last.reason), S_rate_limit)
        /\ ~last.passed

-----------------------------------------------------------------------------
(* A store whose calls can raise: the limiter and the FastAPI adapter       *)
(* handle no exception of the store, so the first failing call ends the    *)
(* check and the request                                                   *)

ReadFaults == {"get_window", "get_burst"}

DenyWriteFaults == {"increment_violations", "set_ban"}

AllowWriteFaults == {"increment_burst", "increment_window"}

Faults == ReadFaults \cup DenyWriteFaults \cup AllowWriteFaults

Raised(st, fault) == [raised |-> TRUE, fault |-> fault, store |-> st]

Returned(r) == [raised |-> FALSE, result |-> r.result, store |-> r.store]

\* RateLimiter.check_limit when the store call named by fault raises: no
\* try/except surrounds the store calls, the exception leaves check_limit
\* with the writes made before it kept
CheckLimitFailing(st, t, rc, dflt, identifier, path, fault) ==
    LET cfg == ResolveConfig(rc, dflt, path)
        count == StoreGetOr0(st, t, WindowKey(identifier, path, t))
        burst_count == StoreGetOr0(st, t, BurstKey(identifier, path))
        violation_key == ViolationKey(identifier, path)
        st_v == StoreIncrement(st, t, violation_key, 1, ViolationTTL)
        st_u == UseBurst(st, t, identifier, path)
        done == Returned(check_limit(st, t, rc, dflt, identifier, path))
    IN  IF RuleDisabled(cfg) THEN done
        ELSE IF fault = "get_window" THEN Raised(st, fault)
        ELSE IF WindowExceeded(count, cfg)
             THEN IF fault = "get_burst" THEN Raised(st, fault)
                  ELSE IF BurstExhausted(burst_count, cfg)
                       THEN IF AutoBanEnabled(cfg)
                            THEN IF fault = "increment_violations" THEN Raised(st, fault)
                                 ELSE IF BanDue(st_v[violation_key].val, cfg) /\ fault = "set_ban"
                                      THEN Raised(st_v, fault)
                                      ELSE done
                            ELSE done
                       ELSE IF fault = "increment_burst" THEN Raised(st, fault)
                            ELSE IF fault = "increment_window" THEN Raised(st_u, fault)
                            ELSE done
             ELSE IF fault = "increment_window" THEN Raised(st, fault) ELSE done

\* FastAPIGuard.dispatch: "except Exception as e: ... raise" hands the
\* exception on, the request is answered by no handler and no denial
FastAPIDispatchFailing(st, t, rc, dflt, ip, path, fault) ==
    LET r == CheckLimitFailing(st, t, rc, dflt, ip, path, fault)
    IN  IF IsIpBanned(st, t, ip)
        THEN [stage |-> "ban", raised |-> FALSE, passed |-> FALSE, store |-> st]
        ELSE IF dflt.enabled
             THEN IF r.raised
                  THEN [stage |-> "rate", raised |-> TRUE, passed |-> FALSE, store |-> r.store]
                  ELSE [stage |-> IF r.result.allowed THEN "allowed" ELSE "rate", raised |-> FALSE,
                        passed |-> r.result.allowed, store |-> r.store]
             ELSE [stage |-> "allowed", raised |-> FALSE, passed |-> TRUE, store |-> st]

\* a request during which the store call named by fault raises
FastAPIRequestFailing(ip, path, fault) ==
    LET r == FastAPIDispatchFailing(store, now, route_configs, config, ip, path, fault)
    IN  /\ hist.req < MaxRequests
        /\ r.raised
        /\ store' = r.store
        /\ calls' = [calls EXCEPT ![<<ip, path>>] = CountCall(ip, path)]
        /\ hist' = [hist EXCEPT !.req = @ + 1]
        /\ last' = [op |-> "fastapi_failing", identifier |-> ip, path |-> path, t |-> now, fault |-> fault,
                    stage |-> r.stage, raised |-> r.raised, passed |-> r.passed]
        /\ UNCHANGED <<now, config, route_configs, guard_config, rt>>

FaultIps == {<<"1">>}

InitFault ==
    /\ now = SecondsPerMinute \div 2
    /\ store = EmptyStore
    /\ config \in PipelineRules
    /\ route_configs = <<>>
    /\ guard_config = NoGuardConfig
    /\ calls = NoCalls
    /\ hist = NoHistory
    /\ last = [op |-> "init"]
    /\ rt = NoRoute

NextFault ==
    \/ \E ip \in FaultIps, path \in PipelinePaths : FastAPIRequest(ip, path)
    \/ \E ip \in FaultIps, path \in PipelinePaths, fault \in Faults : FastAPIRequestFailing(ip, path, fault)
    \/ \E t \in TickTargets : Tick(t)

SpecFault == InitFault /\ [][NextFault]_vars

\* C15: a request during which a read of the store raises proceeds as if the
\* identifier were not limited, while a failing write of a denial's
\* bookkeeping is surfaced as an error.
C15_ReadsFailOpen ==
    last.op = "fastapi_failing" =>
        /\ last.fault \in ReadFaults => (last.passed /\ ~last.raised)
        /\ last.fault \in DenyWriteFaults => last.raised

-----------------------------------------------------------------------------
(* A logging collaborator whose calls can raise: before_request logs a     *)
(* denial between building the response and returning it, after_request    *)
(* logs every response before returning it, neither inside a try           *)

\* the call of the collaborator that records a request ended at the stage
LogCall(stage) ==
    CASE stage \in {"ban", "ua", "penetration"} -> "log_blocked_request"
      [] stage = "rate" -> "log_security_event"
      [] OTHER -> "log_request"

\* the answer to a request whose checks ended in r when the collaborator
\* raises (log_fails) or returns
FlaskAnswer(r, log_fails) ==
    [stage |-> r.stage, decided |-> IF r.passed THEN "allowed" ELSE "denied", reason |-> r.reason,
     log_call |-> LogCall(r.stage), raised |-> log_fails,
     answered |-> IF log_fails THEN "error" ELSE IF r.passed THEN "allowed" ELSE "denied"]

FlaskRequestLogging(ip, method, path, ua_blocked, suspicious, log_fails) ==
    LET r == FlaskBeforeRequest(store, now, guard_config, route_configs, config,
                                ip, method, path, ua_blocked, suspicious)
    IN  /\ hist.req < MaxRequests
        /\ store' = r.store
        /\ calls' = IF r.limited THEN [calls EXCEPT ![<<ip, path>>] = CountCall(ip, path)] ELSE calls
        /\ hist' = [hist EXCEPT !.req = @ + 1, !.banned = @ \cup BansWritten(store, r.store)]
        /\ last' = [op |-> "flask_logging", identifier |-> ip, method |-> method, path |-> path, t |-> now,
                    answer |-> FlaskAnswer(r, log_fails)]
        /\ UNCHANGED <<now, config, route_configs, guard_config, rt>>

NextLogging ==
    \/ \E ip \in FaultIps, method \in Methods, path \in PipelinePaths, kind \in RequestKinds,
          log_fails \in BOOLEAN :
          FlaskRequestLogging(ip, method, path, kind.ua_blocked, kind.suspicious, log_fails)
    \/ \E t \in TickTargets : Tick(t)

SpecLogging == InitPipeline /\ [][NextLogging]_vars

\* C16: a failure of the logging collaborator leaves the verdict as the
\* checks decided it: a denied request is answered with the denial and its
\* reason, an allowed request is allowed.
C16_LoggingNeverAborts ==
    last.op = "flask_logging" =>
        /\ last.answer.answered = last.answer.decided
        /\ last.answer.decided = "denied" => last.answer.reason # <<>>

-----------------------------------------------------------------------------
(* IPFilter.is_allowed: ban list, blacklist, whitelist. Addresses are      *)
(* 10.0.0.x; a list entry is an address (prefix 32) or a CIDR block of two *)
(* addresses (prefix 31).                                                  *)

MaxOctet == 3

MaxFilterSteps == 3

AddressBits == 32

S_blacklisted == <<"I", "P", " ", "i", "s", " ", "b", "l", "a", "c", "k", "l", "i", "s", "t", "e", "d">>

S_not_whitelisted == <<"I", "P", " ", "n", "o", "t", " ", "i", "n", " ", "w", "h", "i", "t", "e", "l", "i", "s", "t">>

Octets == 0..MaxOctet

\* the address 10.0.0.x as the identifier of its ban record
IpString(x) == <<"1", "0", ".", "0", ".", "0", ".", x>>

Entry(net, prefix) == [net |-> net, prefix |-> prefix]

ListEntries == {Entry(x, AddressBits) : x \in Octets} \cup {Entry(x, AddressBits - 1) : x \in {y \in Octets : y % 2 = 0}}

\* a list is empty or holds one entry
IpLists == {{}} \cup {{e} : e \in ListEntries}

\* the addresses for which ban records are written
BannedOctets == {1, 2}

\* standard prefix containment
InBlock(x, e) == x \div 2 ^ (AddressBits - e.prefix) = e.net \div 2 ^ (AddressBits - e.prefix)

MatchesAny(x, entries) == \E e \in entries : InBlock(x, e)

\* faulty variant: a whitelisted address is allowed before the blacklist is
\* consulted
IpFilterWhitelistFirst(st, t, whitelist, blacklist, x) ==
    IF IsIpBanned(st, t, IpString(x))
    THEN [allowed |-> FALSE, reason |-> BanInfoReason(st, IpString(x))]
    ELSE IF whitelist # {} /\ MatchesAny(x, whitelist) THEN [allowed |-> TRUE, reason |-> <<>>]
    ELSE IF blacklist # {} /\ MatchesAny(x, blacklist) THEN [allowed |-> FALSE, reason |-> S_blacklisted]
    ELSE IF whitelist # {} THEN [allowed |-> FALSE, reason |-> S_not_whitelisted]
    ELSE [allowed |-> TRUE, reason |-> <<>>]

IpFilterIsAllowed(st, t, whitelist, blacklist, x) ==
    IF IsIpBanned(st, t, IpString(x))
    THEN [allowed |-> FALSE, reason |-> BanInfoReason(st, IpString(x))]
    ELSE IF blacklist # {} /\ MatchesAny(x, blacklist) THEN [allowed |-> FALSE, reason |-> S_blacklisted]
    ELSE IF whitelist # {} /\ ~MatchesAny(x, whitelist) THEN [allowed |-> FALSE, reason |-> S_not_whitelisted]
    ELSE [allowed |-> TRUE, reason |-> <<>>]

InitIpFilter ==
    /\ now = SecondsPerMinute \div 2
    /\ store = EmptyStore
    /\ config = StrictRule
    /\ route_configs = <<>>
    /\ guard_config = NoGuardConfig
    /\ calls = NoCalls
    /\ hist = NoHistory
    /\ last = [op |-> "init"]
    /\ \E whitelist \in IpLists, blacklist \in IpLists :
          rt = [stage |-> "ip_filter", whitelist |-> whitelist, blacklist |-> blacklist]

IsAllowedStep(x) ==
    LET r == IpFilterIsAllowed(store, now, rt.whitelist, rt.blacklist, x)
    IN  /\ hist.req < MaxFilterSteps
        /\ hist' = [hist EXCEPT !.req = @ + 1]
        /\ last' = [op |-> "is_allowed", ip |-> x, t |-> now, banned |-> IsIpBanned(store, now, IpString(x)),
                    allowed |-> r.allowed, reason |-> r.reason]
        /\ UNCHANGED <<now, store, config, route_configs, guard_config, calls, rt>>

\* a ban record is written for the address, as the limiter writes it
BanStep(x) ==
    /\ hist.req < MaxFilterSteps
    /\ ~IsIpBanned(store, now, IpString(x))
    /\ store' = StoreSet(store, now, BanKey(IpString(x)),
                         [reason |-> RateLimitReason(None), timestamp |-> now], BanTTL(config))
    /\ hist' = [hist EXCEPT !.req = @ + 1, !.banned = @ \cup {IpString(x)}]
    /\ last' = [op |-> "ban", ip |-> x, t |-> now]
    /\ UNCHANGED <<now, config, route_configs, guard_config, calls, rt>>

NextIpFilter ==
    \/ \E x \in Octets : IsAllowedStep(x)
    \/ \E x \in BannedOctets : BanStep(x)
    \/ \E t \in TickTargets : Tick(t)

SpecIpFilter == InitIpFilter /\ [][NextIpFilter]_vars

\* C19: is_allowed denies a banned address with the ban reason; else denies
\* an address matching a blacklist entry; else, under a non-empty whitelist,
\* denies an address matching no whitelist entry; else allows. Whitelist
\* [10.0.0.1] and blacklist [10.0.0.2]: .1 allowed, .2 denied, .3 denied.
C19_IpFilterOrder ==
    last.op = "is_allowed" =>
        LET black == MatchesAny(last.ip, rt.blacklist)
            white == MatchesAny(last.ip, rt.whitelist)
        IN  /\ last.banned => (~last.allowed /\ last.reason = RateLimitReason(None))
            /\ (~last.banned /\ black) => ~last.allowed
            /\ (~last.banned /\ ~black /\ rt.whitelist # {} /\ ~white) => ~last.allowed
            /\ (~last.banned /\ ~black /\ (rt.whitelist = {} \/ white)) => last.allowed
            /\ ~last.allowed => last.reason # <<>>
            /\ (/\ ~last.banned
                /\ rt.whitelist = {Entry(1, AddressBits)}
                /\ rt.blacklist = {Entry(2, AddressBits)}) =>
                  /\ last.ip = 1 => last.allowed
                  /\ last.ip \in {2, 3} => ~last.allowed

\* 10.0.0.3 is denied under whitelist [10.0.0.1] and blacklist [10.0.0.2]
C19_Witness ==
    /\ last.op = "is_allowed"
    /\ ~last.banned
    /\ rt.whitelist = {Entry(1, AddressBits)}
    /\ rt.blacklist = {Entry(2, AddressBits)}
    /\ last.ip = 3
    /\ ~last.allowed

-----------------------------------------------------------------------------
(* Route bindings added while the limiter is in use *)

MaxAdds == 1

MaxRuntimeChecks == 3

RuntimeDefault == Rule(1, 1, 0, 1, TRUE)

AddedRules == {StrictRule, DisabledRule}

AddedPatterns == {P_a, PAT_a_one, PAT_star}

RuntimePaths == {P_a, P_ab}

InitialRoutes == {<<>>, <<<<PAT_a_any, DisabledRule>>>>}

InitRuntime ==
    /\ now = SecondsPerMinute \div 2
    /\ store = EmptyStore
    /\ config = RuntimeDefault
    /\ route_configs \in InitialRoutes
    /\ guard_config = NoGuardConfig
    /\ calls = NoCalls
    /\ hist = NoHistory
    /\ last = [op |-> "init"]
    /\ rt = [stage |-> "runtime", adds |-> 0, at |-> 0]

AddRoute(pattern, rule) ==
    /\ rt.adds < MaxAdds
    /\ route_configs' = AddRouteConfig(route_configs, pattern, rule)
    /\ rt' = [stage |-> "runtime", adds |-> rt.adds + 1, at |-> hist.req, pattern |-> pattern, rule |-> rule]
    /\ last' = [op |-> "add_route_config", pattern |-> pattern, rule |-> rule, t |-> now]
    /\ UNCHANGED <<now, store, config, guard_config, calls, hist>>

NextRuntime ==
    \/ \E pattern \in AddedPatterns, rule \in AddedRules : AddRoute(pattern, rule)
    \/ \E identifier \in Identifiers, path \in RuntimePaths :
          hist.req < MaxRuntimeChecks /\ CheckLimit(identifier, path)
    \/ \E t \in TickTargets : Tick(t)

SpecRuntime == InitRuntime /\ [][NextRuntime]_vars

\* the binding of the pattern is the one get_config_for_route returns for
\* the path: the pattern is the path, or no binding has the path as its
\* pattern and the pattern is the first in registration order that matches
ResolvesTo(rc, pattern, path) ==
    \/ pattern = path
    \/ /\ pattern \in Patterns(rc)
       /\ path \notin Patterns(rc)
       /\ MatchRoutePattern(pattern, path)
       /\ FirstMatch(rc, path) = IndexOf(rc, pattern)

\* the verdict of the rule on the counters stored before the call
DecidedBy(e, rule) ==
    /\ e.cfg = rule
    /\ ~rule.enabled => e.result = [allowed |-> TRUE, remaining |-> -1, reset |-> -1]
    /\ rule.enabled =>
          (e.result.allowed <=> ~(e.count >= rule.requests_per_minute /\ e.burst >= rule.burst_size))

\* the check_limit call that follows add_route_config with nothing between
NextCheckAfterAdd == last.op = "add_route_config" /\ last'.op = "check_limit" /\ hist'.req = hist.req + 1

\* C20 as stated: the check_limit call that follows add_route_config, on a
\* path the added pattern matches, is decided by the added rule on the
\* counters already stored; adding the binding leaves the store unchanged.
C20_NextCheckMatching ==
    [][/\ last'.op = "add_route_config" => store' = store
       /\ (NextCheckAfterAdd /\ MatchRoutePattern(last.pattern, last'.path)) =>
             DecidedBy(last', last.rule)]_vars

\* C20 amended: the check_limit call that follows add_route_config, on a
\* path that resolves to the added binding (the pattern is the path, or no
\* binding has the path as its pattern and the added pattern is the first
\* registered one that matches), is decided by the added rule on the counters
\* already stored; adding the binding leaves the store unchanged.
C20_NextCheckResolved ==
    [][/\ last'.op = "add_route_config" => store' = store
       /\ (NextCheckAfterAdd /\ ResolvesTo(route_configs, last.pattern, last'.path)) =>
             DecidedBy(last', last.rule)]_vars

\* a request on "/a" was counted under the default rule, the strict rule is
\* then bound to a pattern that matches "/a", and the next request on "/a" is
\* denied on the stored count, which the default rule would have admitted
C20_Witness ==
    /\ IsCheck
    /\ rt.stage = "runtime"
    /\ rt.adds >= 1
    /\ hist.req = rt.at + 1
    /\ rt.at >= 1
    /\ rt.rule = StrictRule
    /\ last.path = P_a
    /\ last.cfg = StrictRule
    /\ last.count = 1
    /\ ~last.result.allowed

-----------------------------------------------------------------------------
(* get_config_for_route called between check_limit calls *)

MaxGets == 2

Unresolved == [unresolved |-> TRUE]

\* faulty variant: the resolved rule is cached as an exact binding of the path
GetConfigCaching(path) ==
    LET rule == GetConfigForRoute(route_configs, config, path)
    IN  /\ rt.gets < MaxGets
        /\ route_configs' = AddRouteConfig(route_configs, path, rule)
        /\ rt' = [rt EXCEPT !.gets = @ + 1,
                            !.first[path] = IF @ = Unresolved THEN [rule |-> rule] ELSE @]
        /\ last' = [op |-> "get_config_for_route", path |-> path, rule |-> rule, t |-> now]
        /\ UNCHANGED <<now, store, config, guard_config, calls, hist>>

\* RateLimiter.get_config_for_route(path); rt.first keeps the rule the first
\* call for each path returned
GetConfig(path) ==
    LET rule == GetConfigForRoute(route_configs, config, path)
    IN  /\ rt.gets < MaxGets
        /\ rt' = [rt EXCEPT !.gets = @ + 1,
                            !.first[path] = IF @ = Unresolved THEN [rule |-> rule] ELSE @]
        /\ last' = [op |-> "get_config_for_route", path |-> path, rule |-> rule, t |-> now]
        /\ UNCHANGED <<now, store, config, route_configs, guard_config, calls, hist>>

ResolveRoutes == RouteSets \cup {<<<<PAT_star, StrictRule>>, <<P_a, DisabledRule>>>>}

InitResolve ==
    /\ now = SecondsPerMinute \div 2
    /\ store = EmptyStore
    /\ config = RuntimeDefault
    /\ route_configs \in ResolveRoutes
    /\ guard_config = NoGuardConfig
    /\ calls = NoCalls
    /\ hist = NoHistory
    /\ last = [op |-> "init"]
    /\ rt = [stage |-> "resolve_log", gets |-> 0, rules |-> route_configs,
             first |-> [path \in RequestPaths |-> Unresolved]]

NextResolve ==
    \/ \E path \in RequestPaths : GetConfig(path)
    \/ \E identifier \in Identifiers, path \in LimiterPaths : CheckLimit(identifier, path)
    \/ \E t \in TickTargets : Tick(t)

SpecResolve == InitResolve /\ [][NextResolve]_vars

\* C21: for a fixed rule set get_config_for_route returns for a path the
\* rule it returned for it the first time, whatever check_limit and
\* get_config_for_route calls were made in between, and a call changes
\* neither the rule set nor the store.
C21_ResolutionPure ==
    [][last'.op = "get_config_for_route" =>
          /\ rt'.first[last'.path] = [rule |-> last'.rule]
          /\ last'.rule = GetConfigForRoute(rt.rules, config, last'.path)
          /\ route_configs' = route_configs
          /\ route_configs' = rt.rules
          /\ store' = store]_vars

\* the second resolution of "/a/b", after requests that were counted and
\* denied, returns what the first returned
C21_Witness ==
    /\ last.op = "get_config_for_route"
    /\ rt.gets = 2
    /\ last.path = P_ab
    /\ rt.first[P_ab] = [rule |-> last.rule]
    /\ hist.req >= 2
    /\ store # EmptyStore

-----------------------------------------------------------------------------
(* Concurrent check_limit calls for one identifier and path: a call is     *)
(* suspended before every store operation, and a store operation is one    *)
(* atomic step. In this specification rt holds the frame of every call in  *)
(* flight (its position and its local variables) and the tally of the      *)
(* calls that returned.                                                    *)

MaxProcs == 2
MaxRaceCalls == 3

Procs == 1..MaxProcs

RaceIdentifier == <<"1">>

RacePath == P_a

RaceRules == {Rule(MaxRpm, b, th, 1, TRUE) : b \in 0..1, th \in {0, 2}}

IdleFrame == [pc |-> "idle", t |-> 0, count |-> 0, burst_count |-> 0, new_count |-> 0, stale |-> FALSE]

Frame(p) == rt.frames[p]

RaceCfg == ResolveConfig(route_configs, config, RacePath)

\* the call of process p moves to position pc with the local variables upd
Goto(p, f) ==
    /\ rt' = [rt EXCEPT !.frames[p] = f]
    /\ UNCHANGED <<now, config, route_configs, guard_config, calls, hist>>

\* lines 119-131: the rule is resolved, the time is read, the keys are built
StartCall(p) ==
    /\ Frame(p).pc = "idle"
    /\ rt.started < MaxRaceCalls
    /\ ~RuleDisabled(RaceCfg)
    /\ rt' = [rt EXCEPT !.frames[p] = [IdleFrame EXCEPT !.pc = "get_window", !.t = now],
                        !.started = @ + 1]
    /\ last' = [op |-> "start", proc |-> p]
    /\ UNCHANGED <<now, store, config, route_configs, guard_config, calls, hist>>

\* lines 134-137: count = self.storage.get(window_key) or 0
StepGetWindow(p) ==
    LET f == Frame(p)
        count == StoreGetOr0(store, now, WindowKey(RaceIdentifier, RacePath, f.t))
    IN  /\ f.pc = "get_window"
        /\ Goto(p, [f EXCEPT !.count = count,
                             !.pc = IF WindowExceeded(count, RaceCfg) THEN "get_burst" ELSE "incr_window"])
        /\ last' = [op |-> "get_window", proc |-> p]
        /\ UNCHANGED store

\* faulty variant: burst credit is granted without looking at its count
StepGetBurstUnchecked(p) ==
    LET f == Frame(p)
        burst_count == StoreGetOr0(store, now, BurstKey(RaceIdentifier, RacePath))
    IN  /\ f.pc = "get_burst"
        /\ Goto(p, [f EXCEPT !.burst_count = burst_count, !.pc = "incr_burst"])
        /\ last' = [op |-> "get_burst", proc |-> p]
        /\ UNCHANGED store

\* lines 139-147: burst_count = self.storage.get(burst_key) or 0
StepGetBurst(p) ==
    LET f == Frame(p)
        burst_count == StoreGetOr0(store, now, BurstKey(RaceIdentifier, RacePath))
    IN  /\ f.pc = "get_burst"
        /\ Goto(p, [f EXCEPT !.burst_count = burst_count,
                             !.pc = IF BurstExhausted(burst_count, RaceCfg)
                                    THEN IF AutoBanEnabled(RaceCfg) THEN "incr_violations" ELSE "return_denied"
                                    ELSE "incr_burst"])
        /\ last' = [op |-> "get_burst", proc |-> p]
        /\ UNCHANGED store

\* lines 148-153: violations = self.storage.increment(violation_key, 1, 86400)
StepIncrViolations(p) ==
    LET f == Frame(p)
        violation_key == ViolationKey(RaceIdentifier, RacePath)
        st1 == StoreIncrement(store, now, violation_key, 1, ViolationTTL)
        violations == st1[violation_key].val
    IN  /\ f.pc = "incr_violations"
        /\ store' = st1
        /\ Goto(p, [f EXCEPT !.pc = IF BanDue(violations, RaceCfg) THEN "set_ban" ELSE "return_denied"])
        /\ last' = [op |-> "incr_violations", proc |-> p]

\* lines 155-163: self.storage.set(ban_key, {...}, auto_ban_duration_minutes * 60)
StepSetBan(p) ==
    LET f == Frame(p)
    IN  /\ f.pc = "set_ban"
        /\ store' = StoreSet(store, now, BanKey(RaceIdentifier),
                             [reason |-> RateLimitReason(RacePath), timestamp |-> f.t], BanTTL(RaceCfg))
        /\ Goto(p, [f EXCEPT !.pc = "return_denied"])
        /\ last' = [op |-> "set_ban", proc |-> p]

\* lines 172-173: self.storage.increment(burst_key, 1, 3600)
StepIncrBurst(p) ==
    LET f == Frame(p)
        burst_key == BurstKey(RaceIdentifier, RacePath)
    IN  /\ f.pc = "incr_burst"
        /\ store' = StoreIncrement(store, now, burst_key, 1, BurstTTL)
        /\ Goto(p, [f EXCEPT !.pc = "incr_window",
                             !.stale = @ \/ StoreGetOr0(store, now, burst_key) # f.burst_count])
        /\ last' = [op |-> "incr_burst", proc |-> p]

\* faulty variant: the counter is written back from the value read earlier
StepIncrWindowStale(p) ==
    LET f == Frame(p)
        window_key == WindowKey(RaceIdentifier, RacePath, f.t)
    IN  /\ f.pc = "incr_window"
        /\ store' = StoreSet(store, now, window_key, f.count + 1, WindowTTL)
        /\ Goto(p, [f EXCEPT !.pc = "return_allowed", !.new_count = f.count + 1,
                             !.stale = @ \/ StoreGetOr0(store, now, window_key) # f.count])
        /\ last' = [op |-> "incr_window", proc |-> p]

\* lines 175-176: new_count = self.storage.increment(window_key, 1, 60)
StepIncrWindow(p) ==
    LET f == Frame(p)
        window_key == WindowKey(RaceIdentifier, RacePath, f.t)
        st1 == StoreIncrement(store, now, window_key, 1, WindowTTL)
    IN  /\ f.pc = "incr_window"
        /\ store' = st1
        /\ Goto(p, [f EXCEPT !.pc = "return_allowed", !.new_count = st1[window_key].val,
                             !.stale = @ \/ StoreGetOr0(store, now, window_key) # f.count])
        /\ last' = [op |-> "incr_window", proc |-> p]

\* lines 165-170 and 178-184: the verdict is returned to the caller
ReturnCall(p) ==
    LET f == Frame(p)
        allowed == f.pc = "return_allowed"
    IN  /\ f.pc \in {"return_allowed", "return_denied"}
        /\ rt' = [rt EXCEPT !.frames[p] = IdleFrame,
                            !.allowed = IF allowed THEN @ + 1 ELSE @,
                            !.denied = IF allowed THEN @ ELSE @ + 1,
                            !.counts = IF allowed THEN @ \cup {f.new_count} ELSE @,
                            !.raced = @ \/ (allowed /\ f.stale)]
        /\ last' = [op |-> IF allowed THEN "return_allowed" ELSE "return_denied", proc |-> p,
                    remaining |-> IF allowed THEN Remaining(RaceCfg, f.new_count) ELSE 0]
        /\ UNCHANGED <<now, store, config, route_configs, guard_config, calls, hist>>

\* faulty variant: the window counter written by the aborted call is removed
AbortCallRollback(p) ==
    LET f == Frame(p)
    IN  /\ f.pc \notin {"idle", "get_window"}
        /\ rt' = [rt EXCEPT !.frames[p] = IdleFrame, !.aborted = @ + 1]
        /\ store' = StoreDelete(store, WindowKey(RaceIdentifier, RacePath, f.t))
        /\ last' = [op |-> "abort", proc |-> p]
        /\ UNCHANGED <<now, config, route_configs, guard_config, calls, hist>>

\* the request is cancelled while its call is suspended between two store
\* operations, or after the last of them and before the verdict is returned
AbortCall(p) ==
    LET f == Frame(p)
    IN  /\ f.pc \notin {"idle", "get_window"}
        /\ rt' = [rt EXCEPT !.frames[p] = IdleFrame, !.aborted = @ + 1]
        /\ last' = [op |-> "abort", proc |-> p]
        /\ UNCHANGED <<now, store, config, route_configs, guard_config, calls, hist>>

InitRace ==
    /\ now = SecondsPerMinute \div 2
    /\ store = EmptyStore
    /\ config \in RaceRules
    /\ route_configs = <<>>
    /\ guard_config = NoGuardConfig
    /\ calls = NoCalls
    /\ hist = NoHistory
    /\ last = [op |-> "init"]
    /\ rt = [stage |-> "race", frames |-> [p \in Procs |-> IdleFrame], started |-> 0,
             allowed |-> 0, denied |-> 0, aborted |-> 0, counts |-> {}, raced |-> FALSE]

\* the calls all fall into one window: the clock does not move
NextRace ==
    \/ \E p \in Procs : StartCall(p)
    \/ \E p \in Procs : StepGetWindow(p)
    \/ \E p \in Procs : StepGetBurst(p)
    \/ \E p \in Procs : StepIncrViolations(p)
    \/ \E p \in Procs : StepSetBan(p)
    \/ \E p \in Procs : StepIncrBurst(p)
    \/ \E p \in Procs : StepIncrWindow(p)
    \/ \E p \in Procs : ReturnCall(p)
    \/ \E p \in Procs : AbortCall(p)

SpecRace == InitRace /\ [][NextRace]_vars

RaceWindowCount == StoreGetOr0(store, now, WindowKey(RaceIdentifier, RacePath, now))

AllReturned == \A p \in Procs : Frame(p).pc = "idle"

\* C22: with calls for one identifier and path interleaved at single store
\* operations, more than requests_per_minute + burst_size calls are admitted
\* in one window in some execution (C22_Witness), and whenever that happens
\* an admitted call incremented a counter that was no longer at the value
\* the call had read: the read and the increment are not one atomic step.
C22_OverAdmissionByRace == rt.allowed > Quota(config) => rt.raced

C22_Witness ==
    /\ rt.allowed > Quota(config)
    /\ rt.aborted = 0
    /\ AllReturned

\* C23: once all calls have returned (none was aborted), the stored window
\* count equals the number of calls that returned allowed, and the new_count
\* values the admitted calls got from their increments are pairwise distinct.
C23_NoLostUpdates ==
    (AllReturned /\ rt.aborted = 0) =>
        /\ RaceWindowCount = rt.allowed
        /\ Cardinality(rt.counts) = rt.allowed

\* two calls that raced past the read were both admitted
C23_Witness ==
    /\ AllReturned
    /\ rt.aborted = 0
    /\ rt.raced
    /\ rt.allowed >= 2
    /\ RaceWindowCount = rt.allowed

\* C24: an abort between the store operations of a call leaves the store as
\* the operations already issued made it, and the window counter of the key
\* is never below the number of calls that returned allowed in the window.
C24_NeverUndercount ==
    [][/\ (last'.op = "abort" => store' = store)
       /\ RaceWindowCount' >= rt'.allowed]_vars

\* a call was aborted after its increment: the counter is ahead of the
\* number of admitted calls
C24_Witness ==
    /\ last.op = "abort"
    /\ rt.aborted >= 1
    /\ RaceWindowCount > rt.allowed
    /\ rt.allowed >= 1

-----------------------------------------------------------------------------
(* The order of the checks of a request (SpecPipeline) *)

CheckOrder == <<"ban", "ua", "rate", "penetration">>

Rank(check) == CHOOSE i \in 1..Len(CheckOrder) : CheckOrder[i] = check

InOrder(checks) == \A i, j \in 1..Len(checks) : i < j => Rank(checks[i]) < Rank(checks[j])

\* exactly one terminal: allowed, or denied by the last check gone through,
\* with a reason
OneTerminal(e) ==
    \/ e.passed /\ e.stage \in {"cors", "allowed"}
    \/ /\ ~e.passed
       /\ e.reason # <<>>
       /\ e.checks # <<>>
       /\ e.stage = e.checks[Len(e.checks)]

-----------------------------------------------------------------------------
(* The blocking and the suspendable limiter (SpecAsync) *)

\* C12: from every store, rule set and clock reached by a sequence of calls
\* of the suspendable check_limit, the next call issues the store operations,
\* returns the verdict and leaves the store that the blocking check_limit
\* issues, returns and leaves for the same identifier and path; so the two
\* agree on every sequence of calls.
C12_SyncAsyncEquivalent ==
    [][(last'.op = "async_check_limit" /\ hist'.req = hist.req + 1) =>
          LET r == check_limit(store, now, route_configs, config, last'.identifier, last'.path)
          IN  /\ last'.result = r.result
              /\ last'.ops = r.ops
              /\ store' = r.store]_vars

\* a suspendable call that used burst credit, and one that wrote a ban
C12_Witness ==
    /\ last.op = "async_check_limit"
    /\ last.cfg.enabled
    /\ last.result.allowed
    /\ Len(last.ops) = 4
    /\ hist.banned # {}

-----------------------------------------------------------------------------
(* The verdicts of check_limit *)

IsDenial == IsCheck /\ ~last.result.allowed

NextBucketStart(t) == (t \div SecondsPerMinute + 1) * SecondsPerMinute

DenialShape(e, scope) ==
    /\ DOMAIN e.result = {"allowed", "remaining", "reset", "reason"}
    /\ e.result.remaining = 0
    /\ e.result.reset = NextBucketStart(e.t)
    /\ e.result.reason # <<>>
    /\ e.result.reason = S_exceeded \o scope

\* C13 as stated: a denial has remaining 0, reset at the start of the next
\* minute and the reason "Rate limit exceeded for <path>", with "global" for
\* the path only when no path was given.
C13_DenialNamesGivenPath ==
    IsDenial => DenialShape(last, IF last.path = None THEN S_global ELSE last.path)

\* C13 amended: a denial has remaining 0, reset at the start of the next
\* minute and the reason "Rate limit exceeded for <path>", with "global" for
\* the path when no path or the empty path was given.
C13_DenialShape ==
    IsDenial => DenialShape(last, IF last.path \in {None, P_empty} THEN S_global ELSE last.path)

\* denials of a call without a path, with the empty path and with "/a"
C13_Witness ==
    /\ IsDenial
    /\ last.path = P_empty
    /\ last.result.reason = S_exceeded \o S_global
    /\ calls[<<last.identifier, P_a>>].n >= 2

UsedBurst(e) == \E i \in 1..Len(e.ops) : e.ops[i] = OpIncr(BurstKey(e.identifier, e.path))

\* C14: an allowed verdict of an enabled rule carries remaining =
\* max(0, requests_per_minute - new_count), new_count being the window count
\* the call stored, and reset = (floor(now/60)+1)*60; remaining is never
\* negative and is 0 for a request admitted on burst credit.
C14_AllowedShape ==
    (IsCheck /\ last.cfg.enabled /\ last.result.allowed) =>
        LET new_count == store[WindowKey(last.identifier, last.path, last.t)].val
            left == last.cfg.requests_per_minute - new_count
        IN  /\ new_count = last.count + 1
            /\ last.result.remaining = IF left > 0 THEN left ELSE 0
            /\ last.result.reset = NextBucketStart(last.t)
            /\ last.result.remaining >= 0
            /\ UsedBurst(last) => last.result.remaining = 0

\* a request admitted on burst credit after requests that left room
C14_Witness ==
    /\ IsCheck
    /\ last.cfg.enabled
    /\ last.result.allowed
    /\ UsedBurst(last)
    /\ last.cfg.requests_per_minute >= 2
    /\ last.count = last.cfg.requests_per_minute
    /\ last.result.remaining = 0

-----------------------------------------------------------------------------
(* The store contract (SpecStore) *)

Absent == [absent |-> TRUE]

\* the ttl of the set that last wrote the key has elapsed
Elapsed(g) == g.ttl # NoExpiry /\ now >= g.at + g.ttl

\* what a get of key k returns, given what was last written under k
Expected(k) ==
    LET g == rt.keys[k]
    IN  IF g.by = "none" \/ Elapsed(g) THEN Absent ELSE [value |-> ValueOf(g.kind)]

\* C17: right after set(k, v, ttl) a get returns v, for a string, a dict and
\* an integer, and exists is true; a get returns absent once the ttl has
\* elapsed and still returns v under a longer ttl or none; a get of a key
\* never set returns absent.
C17_SetGetRoundTrip ==
    /\ last.op = "set" => (last.returned = [value |-> ValueOf(last.kind)] /\ last.exists)
    /\ (last.op = "get" /\ rt.keys[last.key].by # "increment") =>
          /\ last.returned = Expected(last.key)
          /\ last.exists <=> last.returned # Absent

\* after the short ttl of one key elapsed, a get of it returns absent while
\* the other key, set with the long ttl, is still stored
C17_Witness ==
    /\ last.op = "get"
    /\ rt.keys[last.key].by = "set"
    /\ rt.keys[last.key].ttl = ShortTTL
    /\ last.returned = Absent
    /\ \E k \in StoreKeys \ {last.key} :
          /\ rt.keys[k].by = "set"
          /\ rt.keys[k].ttl = LongTTL
          /\ rt.keys[k].at < now
          /\ StoreGet(store, now, k) = [value |-> ValueOf(rt.keys[k].kind)]

\* C18: increment of an absent key stores and returns the amount, increment
\* of a stored integer stores and returns old + amount, the stored value is
\* the sum of the amounts and the value last returned, and increment of a
\* key that holds a value that is not a number raises ValueError.
C18_Increment ==
    last.op = "increment" =>
        /\ last.raised <=> (last.was_live /\ last.was_kind # "int")
        /\ ~last.raised =>
              /\ last.returned = IF last.was_live THEN last.old + last.amount ELSE last.amount
              /\ StoreGet(store, now, last.key) = [value |-> last.returned]
              /\ last.returned = rt.keys[last.key].sum

\* 1, 2, then +5 gives 7
C18_Witness ==
    /\ last.op = "increment"
    /\ ~last.raised
    /\ last.amount = 5
    /\ last.old = 2
    /\ last.returned = 7
    /\ hist.req = 3

-----------------------------------------------------------------------------
(* The violation counter and the ban record (Spec) *)

StoredViolations(st, t, identifier, path) == StoreGetOr0(st, t, ViolationKey(identifier, path))

\* the violation counters of every other identifier and path are as before
OtherViolationsKept(identifier, path) ==
    \A s \in (Identifiers \X LimiterPaths) \ {<<identifier, path>>} :
        StoredViolations(store', now', s[1], s[2]) = StoredViolations(store, now, s[1], s[2])

\* a clock move leaves a violation counter alone until its key expires
TickKeepsViolations ==
    \A s \in Identifiers \X LimiterPaths :
        LET k == ViolationKey(s[1], s[2])
        IN  StoredViolations(store', now', s[1], s[2]) =
                IF Live(store, now', k) THEN StoredViolations(store, now, s[1], s[2]) ELSE 0

\* as claimed, for every rule: every denial adds one to the violation
\* counter of its identifier and path
C25_DenialsCounted ==
    [][(IsCheckStep /\ ~last'.result.allowed) =>
          StoredViolations(store', now', last'.identifier, last'.path) = last'.violations + 1]_vars

\* C25: a denial under a rule with auto_ban_threshold > 0 adds exactly one
\* to the violation counter of its identifier and path; a denial under a
\* rule with auto_ban_threshold = 0, an allowed call and a call for another
\* identifier or path leave the counter as it is, and a clock move changes
\* it only by expiring it. The counter is the number of denials under such a
\* rule since its key was created.
C25_DenialsCountedWhenBanning ==
    [][/\ IsCheckStep =>
            /\ StoredViolations(store', now', last'.identifier, last'.path) =
                   IF ~last'.result.allowed /\ last'.cfg.auto_ban_threshold > 0
                   THEN last'.violations + 1
                   ELSE last'.violations
            /\ last'.violations = StoredViolations(store, now, last'.identifier, last'.path)
            /\ OtherViolationsKept(last'.identifier, last'.path)
       /\ last'.op = "tick" => TickKeepsViolations]_vars

\* the second denial in a row under a rule with threshold 2
C25_Witness ==
    /\ IsCheck
    /\ IsDenial
    /\ last.cfg.auto_ban_threshold = 2
    /\ last.violations = 1
    /\ StoredViolations(store, now, last.identifier, last.path) = 2

\* the step wrote a ban record for the identifier
BanWritten(identifier) ==
    \/ identifier \in BansWritten(store, store')
    \/ /\ last'.op = "check_limit"
       /\ last' # last
       /\ \E i \in DOMAIN last'.ops : last'.ops[i] = OpSet(BanKey(identifier))

\* C26: a ban record is written only by a check_limit call that denies,
\* only under a rule with auto_ban_threshold > 0 and only when the violation
\* count that call's increment returned is >= the threshold, which makes the
\* call at least the T-th denial counted for its identifier and path; under
\* a threshold of 0 no call writes one, and a clock move writes none.
C26_BanOnlyAtThreshold ==
    [][\A ip \in ClientIps :
          BanWritten(ip) =>
              /\ IsCheckStep
              /\ last'.identifier = ip
              /\ ~last'.result.allowed
              /\ last'.cfg.auto_ban_threshold > 0
              /\ last'.violations + 1 >= last'.cfg.auto_ban_threshold
              /\ StoredViolations(store', now', ip, last'.path) >= last'.cfg.auto_ban_threshold]_vars

\* the second denial under threshold 2 wrote the ban record
C26_Witness ==
    /\ IsDenial
    /\ last.cfg.auto_ban_threshold = 2
    /\ last.violations = 1
    /\ Live(store, now, BanKey(last.identifier))
    /\ store[BanKey(last.identifier)].val.timestamp = last.t
    /\ last.ops[Len(last.ops)] = OpSet(BanKey(last.identifier))

-----------------------------------------------------------------------------
(* Calls without a path while "*" is bound to a rule of its own *)

GlobalDefault == Rule(1, 1, 2, 1, TRUE)

InitGlobal ==
    /\ now = SecondsPerMinute \div 2
    /\ store = EmptyStore
    /\ config = GlobalDefault
    /\ route_configs \in {<<<<PAT_star, StrictRule>>>>, <<<<PAT_star, DisabledRule>>, <<P_a, StrictRule>>>>}
    /\ guard_config = NoGuardConfig
    /\ calls = NoCalls
    /\ hist = NoHistory
    /\ last = [op |-> "init"]
    /\ rt = NoRoute

SpecGlobal == InitGlobal /\ [][NextScope]_vars

\* window count, burst credit and violation count stored under the keys of
\* (identifier, path)
Counters(st, t, identifier, path) ==
    <<StoreGetOr0(st, t, WindowKey(identifier, path, t)),
      StoreGetOr0(st, t, BurstKey(identifier, path)),
      StoreGetOr0(st, t, ViolationKey(identifier, path))>>

\* the keys of the store that end in no path
GlobalKeys(identifier, t) ==
    {S_ratelimit \o identifier \o <<":", t \div SecondsPerMinute>>,
     S_ratelimit \o S_burst \o identifier,
     S_ratelimit \o S_violations \o identifier}

RateKeysOf(e) == {e.ops[i].key : i \in {j \in DOMAIN e.ops : e.ops[j].key # BanKey(e.identifier)}}

GlobalCallShape ==
    (IsCheckStep /\ last'.path = None) =>
        /\ last'.cfg = config
        /\ RateKeysOf(last') # {}
        /\ RateKeysOf(last') \subseteq GlobalKeys(last'.identifier, last'.t)

\* as claimed: a call without a path is decided by the default rule, uses
\* keys without a path suffix, and no call that names a path touches the
\* counters of the global scope, nor the reverse
C27_GlobalDisjointFromAnyPath ==
    [][/\ GlobalCallShape
       /\ (IsCheckStep /\ last'.path # None) =>
              Counters(store', now', last'.identifier, None) = Counters(store, now, last'.identifier, None)
       /\ (IsCheckStep /\ last'.path = None) =>
              \A path \in ScopePaths \ {None} :
                  Counters(store', now', last'.identifier, path) = Counters(store, now, last'.identifier, path)]_vars

\* C27: a call without a path is decided by the default rule even when "*"
\* is registered, uses keys without a path suffix, and its counters are
\* disjoint from those of every call that names a non-empty path.
C27_GlobalDisjointFromNamedPaths ==
    [][/\ GlobalCallShape
       /\ (IsCheckStep /\ last'.path \notin {None, P_empty}) =>
              Counters(store', now', last'.identifier, None) = Counters(store, now, last'.identifier, None)
       /\ (IsCheckStep /\ last'.path = None) =>
              \A path \in ScopePaths \ {None, P_empty} :
                  Counters(store', now', last'.identifier, path) = Counters(store, now, last'.identifier, path)]_vars

\* the second call without a path is admitted on the burst credit of the
\* default rule, which the rule bound to "*" does not grant, after calls for
\* "/a" had been counted
C27_Witness ==
    /\ IsCheck
    /\ last.path = None
    /\ last.result.allowed
    /\ last.cfg = config
    /\ last.count = 1
    /\ UsedBurst(last)
    /\ \E i \in DOMAIN route_configs : route_configs[i][1] = PAT_star
    /\ calls[<<last.identifier, P_a>>].n >= 1

-----------------------------------------------------------------------------
(* Burst credit (Spec) *)

StoredBurst(st, t, identifier, path) == StoreGetOr0(st, t, BurstKey(identifier, path))

StoredWindow(st, t, identifier, path, at) == StoreGetOr0(st, t, WindowKey(identifier, path, at))

\* C28: burst credit of an identifier and path goes up, by one, only in a
\* check_limit call for them that read a window count >= requests_per_minute;
\* no call lowers or resets it, a call for another identifier or path leaves
\* it alone, and a clock move changes it only by expiring its key.
C28_BurstOnlyGrows ==
    [][/\ IsCheckStep =>
            LET b0 == StoredBurst(store, now, last'.identifier, last'.path)
                b1 == StoredBurst(store', now', last'.identifier, last'.path)
            IN  /\ b1 \in {b0, b0 + 1}
                /\ b1 = b0 + 1 =>
                       /\ last'.count = StoredWindow(store, now, last'.identifier, last'.path, now)
                       /\ last'.count >= last'.cfg.requests_per_minute
                /\ \A s \in (Identifiers \X LimiterPaths) \ {<<last'.identifier, last'.path>>} :
                       StoredBurst(store', now', s[1], s[2]) = StoredBurst(store, now, s[1], s[2])
       /\ last'.op = "tick" =>
            \A s \in Identifiers \X LimiterPaths :
                StoredBurst(store', now', s[1], s[2]) =
                    IF Live(store, now', BurstKey(s[1], s[2])) THEN StoredBurst(store, now, s[1], s[2]) ELSE 0]_vars

\* in a later window a request is admitted under the base rate while the
\* burst credit consumed earlier stays as it was
C28_Witness ==
    /\ IsCheck
    /\ last.t >= SecondsPerMinute
    /\ last.result.allowed
    /\ last.cfg.requests_per_minute >= 1
    /\ last.count < last.cfg.requests_per_minute
    /\ last.burst >= 1
    /\ StoredBurst(store, now, last.identifier, last.path) = last.burst

\* C29: a request admitted on burst credit (window count >= requests_per_minute,
\* burst credit < burst_size) adds one to the burst credit and one to the
\* window counter in the same call and is allowed; a request admitted under
\* the base rate adds one to the window counter and leaves burst credit alone.
C29_AdmissionWrites ==
    [][(IsCheckStep /\ last'.cfg.enabled) =>
          LET e == last'
              b1 == StoredBurst(store', now', e.identifier, e.path)
              w1 == StoredWindow(store', now', e.identifier, e.path, now')
          IN  /\ (e.count >= e.cfg.requests_per_minute /\ e.burst < e.cfg.burst_size) =>
                    /\ e.result.allowed
                    /\ b1 = e.burst + 1
                    /\ w1 = e.count + 1
                    /\ e.ops = <<OpGet(WindowKey(e.identifier, e.path, e.t)), OpGet(BurstKey(e.identifier, e.path)),
                                 OpIncr(BurstKey(e.identifier, e.path)), OpIncr(WindowKey(e.identifier, e.path, e.t))>>
              /\ e.count < e.cfg.requests_per_minute =>
                    /\ e.result.allowed
                    /\ b1 = e.burst
                    /\ w1 = e.count + 1
                    /\ e.ops = <<OpGet(WindowKey(e.identifier, e.path, e.t)),
                                 OpIncr(WindowKey(e.identifier, e.path, e.t))>>]_vars

\* a request admitted on the second unit of burst credit
C29_Witness ==
    /\ IsCheck
    /\ last.cfg.requests_per_minute >= 1
    /\ last.count >= last.cfg.requests_per_minute
    /\ last.burst = 1
    /\ last.cfg.burst_size = 2
    /\ last.result.allowed
    /\ StoredBurst(store, now, last.identifier, last.path) = 2
    /\ StoredWindow(store, now, last.identifier, last.path, now) = last.count + 1

\* as claimed: in every later window that began before the burst key
\* expired, with all burst credit consumed, the first call reads a window
\* count of 0, calls 1..requests_per_minute are admitted and every further
\* call is denied
C30_EveryLaterWindow ==
    (IsCheck /\ last.cfg.enabled /\ calls[<<last.identifier, last.path>>].spent) =>
        /\ last.k = 1 => last.count = 0
        /\ last.result.allowed <=> last.k <= last.cfg.requests_per_minute

\* C30: burst credit is not replenished at the rollover of the minute: in
\* every later window that began with all burst credit consumed and inside
\* which the burst key does not expire, the first call reads a window count
\* of 0, calls 1..requests_per_minute are admitted and every further call is
\* denied.
C30_LaterWindowUnlessExpired ==
    (/\ IsCheck
     /\ last.cfg.enabled
     /\ calls[<<last.identifier, last.path>>].spent
     /\ ~calls[<<last.identifier, last.path>>].renewed) =>
        /\ last.k = 1 => last.count = 0
        /\ last.result.allowed <=> last.k <= last.cfg.requests_per_minute

\* in the window after the one that used up the burst credit, call
\* requests_per_minute + 1 is denied
C30_Witness ==
    /\ IsCheck
    /\ last.cfg.enabled
    /\ last.cfg.burst_size >= 1
    /\ last.cfg.requests_per_minute >= 1
    /\ calls[<<last.identifier, last.path>>].spent
    /\ ~calls[<<last.identifier, last.path>>].renewed
    /\ last.burst = last.cfg.burst_size
    /\ last.k = last.cfg.requests_per_minute + 1
    /\ ~last.result.allowed

-----------------------------------------------------------------------------
(* What a denying call writes (SpecGlobal) *)

\* the keys a denial for (identifier, path) may write
DenialKeys(identifier, path) == {ViolationKey(identifier, path), BanKey(identifier)}

\* every key outside ks is stored in st1 as it is in st0
SameOutside(st0, st1, ks) ==
    /\ DOMAIN st1 \ ks = DOMAIN st0 \ ks
    /\ \A k \in DOMAIN st0 \ ks : st1[k] = st0[k]

\* C31: a check_limit call that denies leaves the window counter and the
\* burst credit of its identifier and path as they were; the only store
\* state it changes is the violation counter, by plus one, and the ban
\* record of the identifier.
C31_DenialFrame ==
    [][(IsCheckStep /\ ~last'.result.allowed) =>
          LET e == last'
          IN  /\ StoredWindow(store', now', e.identifier, e.path, e.t) = e.count
              /\ e.count = StoredWindow(store, now, e.identifier, e.path, e.t)
              /\ StoredBurst(store', now', e.identifier, e.path) = e.burst
              /\ e.burst = StoredBurst(store, now, e.identifier, e.path)
              /\ SameOutside(store, store', DenialKeys(e.identifier, e.path))
              /\ StoredViolations(store', now', e.identifier, e.path) \in {e.violations, e.violations + 1}]_vars

\* a denial that wrote the ban record, with a full window and all burst
\* credit consumed before and after it
C31_Witness ==
    /\ IsDenial
    /\ last.count >= 1
    /\ last.burst >= 1
    /\ StoredWindow(store, now, last.identifier, last.path, last.t) = last.count
    /\ StoredBurst(store, now, last.identifier, last.path) = last.burst
    /\ StoredViolations(store, now, last.identifier, last.path) = last.violations + 1
    /\ Live(store, now, BanKey(last.identifier))

-----------------------------------------------------------------------------
(* Two identifiers, one of which spells the other followed by a path *)

ID_1 == <<"1">>

ID_1_a == <<"1", ":", "/", "a">>

IsolationIdentifiers == {ID_1, ID_1_a}

IsolationPaths == {None, P_a}

IsolationRule == Rule(1, 0, 2, 1, TRUE)

InitIsolation ==
    /\ now = SecondsPerMinute \div 2
    /\ store = EmptyStore
    /\ config = IsolationRule
    /\ route_configs = <<>>
    /\ guard_config = NoGuardConfig
    /\ calls = [s \in IsolationIdentifiers \X IsolationPaths |->
                   [n |-> 0, fresh |-> TRUE, renewed |-> FALSE, spent |-> FALSE]]
    /\ hist = NoHistory
    /\ last = [op |-> "init"]
    /\ rt = NoRoute

NextIsolation ==
    \/ \E identifier \in IsolationIdentifiers, path \in IsolationPaths : CheckLimit(identifier, path)
    \/ \E t \in TickTargets : Tick(t)

SpecIsolation == InitIsolation /\ [][NextIsolation]_vars

\* C32: a check_limit call for identifier A changes, for every other
\* identifier B and every path, neither the stored counters nor the verdict
\* (remaining included) the next call for B would get, and writes no ban
\* record for B.
C32_IdentifierIsolation ==
    [][IsCheckStep =>
          \A b \in IsolationIdentifiers \ {last'.identifier}, path \in IsolationPaths :
              /\ Counters(store', now', b, path) = Counters(store, now, b, path)
              /\ VerdictFor(store', now', b, path) = VerdictFor(store, now, b, path)
              /\ Live(store', now', BanKey(b)) = Live(store, now, BanKey(b))]_vars

-----------------------------------------------------------------------------
(* The ban branch of the Flask before_request, with other requests running *)
(* between its two store reads. In this specification rt holds the         *)
(* identifiers whose request found them banned and has not yet read the    *)
(* ban record.                                                             *)

InitBanRace ==
    /\ now = SecondsPerMinute \div 2
    /\ store = EmptyStore
    /\ config \in PipelineRules
    /\ route_configs = <<>>
    /\ guard_config = NoGuardConfig
    /\ calls = NoCalls
    /\ hist = NoHistory
    /\ last = [op |-> "init"]
    /\ rt = [stage |-> "ban_race", pending |-> {}]

\* lines 134-135: is_banned = self.guard.is_ip_banned(client_ip), found True
FlaskCheckBan(ip) ==
    /\ ip \notin rt.pending
    /\ IsIpBanned(store, now, ip)
    /\ rt' = [rt EXCEPT !.pending = @ \cup {ip}]
    /\ last' = [op |-> "flask_is_banned", identifier |-> ip, t |-> now]
    /\ UNCHANGED <<now, store, config, route_configs, guard_config, calls, hist>>

\* lines 136-153: ban_info = self.guard.storage.get(...), then
\* ban_info.get('reason', ...): an AttributeError when the get returned None
FlaskReadBan(ip) ==
    LET ban_info == StoreGet(store, now, BanKey(ip))
        found == ban_info # Absent
        reason == IF found THEN S_ip_is_banned \o BanInfoReason(store, ip) ELSE <<>>
    IN  /\ ip \in rt.pending
        /\ rt' = [rt EXCEPT !.pending = @ \ {ip}]
        /\ last' = [op |-> "flask_ban_read", identifier |-> ip, t |-> now,
                    answered |-> IF found THEN "denied" ELSE "error",
                    status |-> IF found THEN FlaskStatus(reason) ELSE 0,
                    reason |-> reason]
        /\ UNCHANGED <<now, store, config, route_configs, guard_config, calls, hist>>

NextBanRace ==
    \/ \E ip \in ClientIps, path \in PipelinePaths : FlaskRequest(ip, "GET", path, FALSE, FALSE)
    \/ \E ip \in ClientIps : FlaskCheckBan(ip)
    \/ \E ip \in ClientIps : FlaskReadBan(ip)
    \/ \E ip \in ClientIps : UnbanIp(ip)
    \/ \E t \in TickTargets : Tick(t)

SpecBanRace == InitBanRace /\ [][NextBanRace]_vars

\* C33: a Flask request whose identifier was found banned is answered with a
\* denial whose reason names the ban, also when the ban record expired or
\* was deleted between the is_ip_banned check and the read of the record;
\* the request never ends in an error.
C33_BannedAlwaysDenied ==
    last.op = "flask_ban_read" =>
        /\ last.answered = "denied"
        /\ Len(last.reason) >= Len(S_ip_is_banned)
        /\ SubSeq(last.reason, 1, Len(S_ip_is_banned)) = S_ip_is_banned

-----------------------------------------------------------------------------
(* FastAPIGuard with the storage given as an async generator: the guard is *)
(* created by the first dispatch. In this specification rt holds the       *)
(* fields of the middleware (_guard_initialized, guard), the state of the  *)
(* storage generator, the position of every dispatch in flight, and the    *)
(* store of a second storage instance.                                     *)

NoGuard == 0

FirstInstance == 1

SecondInstance == 2

\* what __anext__ does when it is called while an earlier __anext__ of the
\* same generator has not returned: it raises, or it produces another value
AnextOutcomes == {"raises", "yields"}

DispatchIp == <<"1">>

DispatchPath == P_root

NewDispatch == [pc |-> "idle", inst |-> NoGuard]

InitDeferred ==
    /\ now = SecondsPerMinute \div 2
    /\ store = EmptyStore
    /\ config \in PipelineRules
    /\ route_configs = <<>>
    /\ guard_config = NoGuardConfig
    /\ calls = NoCalls
    /\ hist = NoHistory
    /\ last = [op |-> "init"]
    /\ rt = [stage |-> "deferred_init", initialized |-> FALSE, guard |-> NoGuard, created |-> 0,
             advanced |-> 0, running |-> FALSE, errors |-> 0, used |-> {}, started |-> 0,
             frames |-> [p \in Procs |-> NewDispatch], other |-> EmptyStore]

\* lines 148-152: the flag is read; when it is not set, storage.__anext__()
\* is called and the dispatch is suspended until it returns
DispatchStart(p, outcome) ==
    /\ rt.frames[p].pc = "idle"
    /\ rt.started < MaxRaceCalls
    /\ rt' = IF rt.initialized
             THEN [rt EXCEPT !.started = @ + 1, !.frames[p].pc = "check"]
             ELSE IF ~rt.running
             THEN [rt EXCEPT !.started = @ + 1, !.advanced = @ + 1, !.running = TRUE,
                             !.frames[p] = [pc |-> "await_anext", inst |-> FirstInstance]]
             ELSE IF outcome = "raises"
             THEN [rt EXCEPT !.started = @ + 1, !.advanced = @ + 1, !.errors = @ + 1]
             ELSE [rt EXCEPT !.started = @ + 1, !.advanced = @ + 1,
                             !.frames[p] = [pc |-> "await_anext", inst |-> SecondInstance]]
    /\ last' = [op |-> "dispatch_start", proc |-> p, initialized |-> rt.initialized,
                raised |-> ~rt.initialized /\ rt.running /\ outcome = "raises"]
    /\ UNCHANGED <<now, store, config, route_configs, guard_config, calls, hist>>

\* lines 152-153 and 86-112: __anext__ has returned the storage instance,
\* _initialize_guard creates the guard and sets the flag
DispatchInitGuard(p) ==
    LET f == rt.frames[p]
    IN  /\ f.pc = "await_anext"
        /\ rt' = [rt EXCEPT !.guard = f.inst, !.created = @ + 1, !.initialized = TRUE,
                            !.running = IF f.inst = FirstInstance THEN FALSE ELSE @,
                            !.frames[p].pc = "check"]
        /\ last' = [op |-> "initialize_guard", proc |-> p, inst |-> f.inst]
        /\ UNCHANGED <<now, store, config, route_configs, guard_config, calls, hist>>

\* lines 154-204: the request is checked against self.guard
DispatchCheck(p) ==
    LET g == rt.guard
        st == IF g = FirstInstance THEN store ELSE rt.other
        r == FastAPIDispatch(st, now, route_configs, config, DispatchIp, DispatchPath)
    IN  /\ rt.frames[p].pc = "check"
        /\ store' = IF g = FirstInstance THEN r.store ELSE store
        /\ rt' = [rt EXCEPT !.frames[p] = NewDispatch, !.used = @ \cup {g},
                            !.other = IF g = FirstInstance THEN @ ELSE r.store]
        /\ last' = [op |-> "dispatch_check", proc |-> p, guard |-> g, passed |-> r.passed, status |-> r.status]
        /\ UNCHANGED <<now, config, route_configs, guard_config, calls, hist>>

NextDeferred ==
    \/ \E p \in Procs, outcome \in AnextOutcomes : DispatchStart(p, outcome)
    \/ \E p \in Procs : DispatchInitGuard(p)
    \/ \E p \in Procs : DispatchCheck(p)

SpecDeferred == InitDeferred /\ [][NextDeferred]_vars

\* C34: with guard creation deferred to the first dispatch, the guard is
\* created once and the storage generator advanced once, also when first
\* requests interleave at the await of the initialisation; no dispatch
\* fails and every request is checked against the same guard and store.
C34_GuardCreatedOnce ==
    /\ rt.created <= 1
    /\ rt.advanced <= 1
    /\ rt.errors = 0
    /\ Cardinality(rt.used) <= 1

-----------------------------------------------------------------------------
(* Rate-limit quota and the later checks of the Flask pipeline *)

QuotaRules == {Rule(n, 1, 2, 2, TRUE) : n \in 0..1}

AllChecks == [cors |-> FALSE, user_agent |-> TRUE, penetration |-> TRUE]

InitQuota ==
    /\ now = SecondsPerMinute \div 2
    /\ store = EmptyStore
    /\ config \in QuotaRules
    /\ route_configs = <<>>
    /\ guard_config = AllChecks
    /\ calls = NoCalls
    /\ hist = NoHistory
    /\ last = [op |-> "init"]
    /\ rt = NoRoute

NextQuota ==
    \/ \E ip \in FaultIps, path \in PipelinePaths, kind \in RequestKinds :
          FlaskRequest(ip, "GET", path, kind.ua_blocked, kind.suspicious)
    \/ \E t \in TickTargets : Tick(t)

SpecQuota == InitQuota /\ [][NextQuota]_vars

IsFlaskStep == last'.op = "flask" /\ hist'.req = hist.req + 1

\* C35: a Flask request that passes the rate check and is denied by the
\* penetration check has added one to the window counter of its identifier
\* and path, and one to the burst credit when the window was full, and the
\* denial leaves both in the store; a request stopped by the ban check or
\* the user-agent check changes nothing in the store.
C35_PenetrationDenialConsumesQuota ==
    [][IsFlaskStep =>
          LET e == last'
              w0 == StoredWindow(store, now, e.identifier, e.path, now)
              b0 == StoredBurst(store, now, e.identifier, e.path)
              cfg == ResolveConfig(route_configs, config, e.path)
          IN  /\ e.stage = "penetration" =>
                    /\ ~e.passed
                    /\ StoredWindow(store', now', e.identifier, e.path, now') = w0 + 1
                    /\ StoredBurst(store', now', e.identifier, e.path) =
                           IF w0 >= cfg.requests_per_minute THEN b0 + 1 ELSE b0
              /\ e.stage \in {"ban", "ua"} => (~e.passed /\ store' = store)]_vars

\* a request with an attack signature, not the first of its client, is
\* admitted on burst credit and then denied by the penetration check
C35_Witness ==
    /\ last.op = "flask"
    /\ last.stage = "penetration"
    /\ ~last.passed
    /\ config.requests_per_minute = 0
    /\ StoredWindow(store, now, last.identifier, last.path, now) = 1
    /\ StoredBurst(store, now, last.identifier, last.path) = 1
    /\ hist.req >= 2

-----------------------------------------------------------------------------
(* Violations of one identifier on several paths (SpecScope) *)

\* the scope of a call: its path, or the global scope when the path is
\* absent or empty
ScopeOf(path) == IF Truthy(path) THEN path ELSE None

\* C36: violations are counted per identifier and path scope and never
\* summed: a denial raises the counter of its own scope only, and a ban
\* record is written only in a call whose own scope's counter, the prior
\* count of that scope plus one, reaches auto_ban_threshold; while the
\* counter of every scope is below the threshold no ban is written, however
\* many denials the scopes have in total.
C36_ViolationsPerScope ==
    [][IsCheckStep =>
          LET e == last'
              own == StoredViolations(store', now', e.identifier, e.path)
          IN  /\ \A path \in ScopePaths :
                     ScopeOf(path) # ScopeOf(e.path) =>
                         StoredViolations(store', now', e.identifier, path) =
                             StoredViolations(store, now, e.identifier, path)
              /\ own \in {e.violations, e.violations + 1}
              /\ BanWritten(e.identifier) => (e.cfg.auto_ban_threshold > 0 /\ own >= e.cfg.auto_ban_threshold)
              /\ own < e.cfg.auto_ban_threshold => ~BanWritten(e.identifier)]_vars

\* one denial on "/" and one without a path under threshold 2: two denials
\* in total, no ban
C36_Witness ==
    /\ IsDenial
    /\ config.auto_ban_threshold = 2
    /\ StoredViolations(store, now, last.identifier, P_root) = 1
    /\ StoredViolations(store, now, last.identifier, None) = 1
    /\ hist.banned = {}
    /\ ~Live(store, now, BanKey(last.identifier))

-----------------------------------------------------------------------------
(* Denials that go on after the ban has expired *)

RebanRule == Rule(0, 0, 2, 1, TRUE)

InitReban ==
    /\ now = SecondsPerMinute \div 2
    /\ store = EmptyStore
    /\ config = RebanRule
    /\ route_configs = <<>>
    /\ guard_config = NoGuardConfig
    /\ calls = NoCalls
    /\ hist = NoHistory
    /\ last = [op |-> "init"]
    /\ rt = NoRoute

SpecReban == InitReban /\ [][Next]_vars

\* C37: every denial of check_limit issued while the violation counter of
\* its identifier and path is at or above auto_ban_threshold writes the ban
\* record anew, with the time of the call and a fresh TTL; so after a ban
\* has expired the first further denial bans again at once.
C37_EveryDenialRebans ==
    [][(/\ IsCheckStep
        /\ ~last'.result.allowed
        /\ last'.cfg.auto_ban_threshold > 0
        /\ last'.violations + 1 >= last'.cfg.auto_ban_threshold) =>
          LET k == BanKey(last'.identifier)
          IN  /\ k \in DOMAIN store'
              /\ store'[k] = [val |-> [reason |-> last'.result.reason, timestamp |-> last'.t],
                              exp |-> last'.t + last'.cfg.auto_ban_duration_minutes * SecondsPerMinute]
              /\ last'.ops[Len(last'.ops)] = OpSet(k)]_vars

\* the ban written at second 30 expired at second 90, where the clock now
\* stands; the denial made there, the first after the expiry, found a
\* violation count at the threshold already and wrote a new ban record
C37_Witness ==
    /\ IsDenial
    /\ hist.ticks = 1
    /\ now = SecondsPerMinute \div 2 + BanTTL(config)
    /\ last.t = now
    /\ last.violations >= last.cfg.auto_ban_threshold
    /\ calls[<<last.identifier, last.path>>].n = 1
    /\ store[BanKey(last.identifier)].exp = now + BanTTL(config)

-----------------------------------------------------------------------------
(* The reset time of a verdict, with calls made at the edges of a minute *)

ClockStarts == {0, SecondsPerMinute \div 2, SecondsPerMinute - 1, SecondsPerMinute}

ClockRules == {Rule(n, 0, 0, 1, TRUE) : n \in 0..1}

InitClock ==
    /\ now \in ClockStarts
    /\ store = EmptyStore
    /\ config \in ClockRules
    /\ route_configs = <<>>
    /\ guard_config = NoGuardConfig
    /\ calls = NoCalls
    /\ hist = NoHistory
    /\ last = [op |-> "init"]
    /\ rt = NoRoute

SpecClock == InitClock /\ [][Next]_vars

\* the minute bucket at the end of the window key the call read
WindowBucketOf(e) == e.ops[1].key[Len(e.ops[1].key)]

\* C38: in every verdict of an enabled rule, allowed or denied, reset is a
\* multiple of 60 with now < reset <= now + 60, now being the second read at
\* the start of the call, and the minute bucket of the window key is
\* reset/60 - 1.
C38_ResetIsNextBucket ==
    (IsCheck /\ last.cfg.enabled) =>
        LET reset == last.result.reset
        IN  /\ reset % SecondsPerMinute = 0
            /\ reset > last.t
            /\ reset - last.t <= SecondsPerMinute
            /\ last.ops[1] = OpGet(WindowKey(last.identifier, last.path, last.t))
            /\ WindowBucketOf(last) = reset \div SecondsPerMinute - 1

\* a denial made in the first second of a minute: reset is a full minute away
C38_Witness ==
    /\ IsDenial
    /\ last.t = SecondsPerMinute
    /\ last.result.reset = 2 * SecondsPerMinute
    /\ WindowBucketOf(last) = 1

-----------------------------------------------------------------------------
(* Route-specific rules under both adapters, with the default rule enabled *)
(* or not                                                                  *)

ParityDefaults == {Rule(1, 0, 0, 1, enabled) : enabled \in BOOLEAN}

ParityPaths == {P_root, P_a, P_ab}

InitParity ==
    /\ now = SecondsPerMinute \div 2
    /\ store = EmptyStore
    /\ config \in ParityDefaults
    /\ route_configs \in RouteSets
    /\ guard_config = NoGuardConfig
    /\ calls = NoCalls
    /\ hist = NoHistory
    /\ last = [op |-> "init"]
    /\ rt = NoRoute

NextParity ==
    \/ \E ip \in FaultIps, path \in ParityPaths : FlaskRequest(ip, "GET", path, FALSE, FALSE)
    \/ \E ip \in FaultIps, path \in ParityPaths : FastAPIRequest(ip, path)
    \/ \E t \in TickTargets : Tick(t)

SpecParity == InitParity /\ [][NextParity]_vars

FlaskVerdict(ip, path) ==
    FlaskBeforeRequest(store, now, guard_config, route_configs, config, ip, "GET", path, FALSE, FALSE).passed

FastAPIVerdict(ip, path) == FastAPIDispatch(store, now, route_configs, config, ip, path).passed

\* C39: in every state and for every identifier and path, both adapters
\* give the verdict of the rule resolved for the path: an enabled
\* route-specific rule is enforced whatever the enabled flag of the default
\* rule, a disabled one exempts its paths, and the two adapters agree.
C39_AdaptersEnforceRouteRule ==
    \A ip \in FaultIps, path \in ParityPaths :
        ~IsIpBanned(store, now, ip) =>
            LET verdict == check_limit(store, now, route_configs, config, ip, path).result.allowed
            IN  /\ FlaskVerdict(ip, path) = verdict
                /\ FastAPIVerdict(ip, path) = verdict

====
